---------------------------- MODULE Spec2Model ----------------------------
(***************************************************************************)
(* The task loop of the ShipIt extension: LoopOrchestrator with its        *)
(* TaskRunner, CountdownTimer, InactivityMonitor, file watchers and the    *)
(* Copilot SDK service, as an event-driven state machine.                  *)
(*                                                                         *)
(* JavaScript runs one callback at a time, so every action below is one    *)
(* run-to-completion slice of the code: from a command, timer tick, file   *)
(* event or resumed `await` up to the next `await` on real I/O (file read  *)
(* or write, gateway call, operator prompt, session abort).  A pending     *)
(* continuation is an element of the bag `threads`; its `pc` names the     *)
(* await it is suspended at.  Awaits on the UI sink (updateStats, refresh, *)
(* updatePanelTiming) are taken together with the slice that follows them. *)
(*                                                                         *)
(* Task descriptions are modelled by the task's position in the checklist  *)
(* (0 is the empty string); a user story by <<task, ordinal>> (<<>> is the *)
(* empty string).  Descriptions are pairwise different.                    *)
(***************************************************************************)
EXTENDS Integers, Sequences, FiniteSets, Bags, TLC

\* ------------------------------------------------------------------ bounds
NTasks == 1          \* items in the checklist
MaxStories == 2      \* stories the executor writes per task
MaxCeiling == 2      \* largest configured iteration ceiling (maxIterations)
MaxIter == 3         \* cap on the iteration counter
MaxInputs == 2       \* commands, timer expiries and file events per run
MaxInputsLong == 3   \* the same, for the longer runs of SpecLong
MaxRetries == 2      \* largest maxRetries option given to executeTask
MaxSeconds == 3      \* longest countdown given to CountdownTimer.start
MaxStarts == 2       \* CountdownTimer.start calls per run
MaxStops == 2        \* CountdownTimer.stop calls per run
MaxAttempt == 6      \* largest attempt index given to getBackoffDelay
MaxPolls == 8        \* poll intervals the InactivityMonitor's clock runs for
MaxEvents == 3       \* file events delivered to the PrdCreationWatcher
MaxLines == 3        \* lines of a checklist document
MaxStoryLines == 4   \* lines of a breakdown document
MaxEntries == 2      \* lines appended to the progress file

Tasks == 1..NTasks
NoStory == <<>>

\* ------------------------------------------------------------------- state
VARIABLES
    state,                       \* LoopOrchestrator.state
    isPaused,                    \* LoopOrchestrator.isPaused
    currentTaskId,               \* LoopOrchestrator.currentTaskId
    currentTaskDescription,      \* LoopOrchestrator.currentTaskDescription
    isGeneratingUserStories,
    isImplementingUserStory,
    currentUserStoryDescription,
    iterationCount,              \* TaskRunner.iterationCount
    taskHistory,                 \* TaskRunner.taskHistory
    trCurrentTask,               \* TaskRunner.currentTaskDescription
    maxIterations,               \* TaskRunner.settings.maxIterations
    cdTimer,                     \* CountdownTimer.timer !== null
    imTimer,                     \* InactivityMonitor.timer !== null
    imIsWaiting,                 \* InactivityMonitor.isWaiting
    imIsPaused,                  \* InactivityMonitor.isPaused
    prdCheckInterval,            \* LoopOrchestrator.prdCheckInterval !== null
    pwWatcher,                   \* PrdWatcher.watcher !== null
    pwEnabled,                   \* PrdWatcher.enabled
    pwLastContent,               \* PrdWatcher.lastContent
    awCallback,                  \* ActivityWatcher: "none" | "record" | "check"
    isStarted,                   \* CopilotSdkService.isStarted
    currentSession,              \* CopilotSdkService.currentSession !== null
    prd,                         \* checklist document: status of each item
    stories,                     \* breakdown document: per task section
    threads,                     \* suspended continuations (bag)
    budget,                      \* bound: commands and events still allowed
    afterStop,                   \* history: stop() invoked, no command since
    stopDone,                    \* history: a stop() finished, no start() since
    last,                        \* history: the slice that ran last
    exec,                        \* CopilotSdkService.executeTask: the call
    countdown,                   \* CountdownTimer: closure, callback, history
    backoff,                     \* getBackoffDelay: arguments and result
    monitor,                     \* InactivityMonitor: baseline, clock, history
    creation,                    \* PrdCreationWatcher, its file and handlers
    store                        \* a document, a store call and its result

vars == << state, isPaused, currentTaskId, currentTaskDescription,
           isGeneratingUserStories, isImplementingUserStory,
           currentUserStoryDescription, iterationCount, taskHistory,
           trCurrentTask, maxIterations, cdTimer, imTimer, imIsWaiting,
           imIsPaused, prdCheckInterval, pwWatcher, pwEnabled, pwLastContent,
           awCallback, isStarted, currentSession, prd, stories, threads,
           budget, afterStop, stopDone, last, exec, countdown, backoff,
           monitor, creation, store >>

\* The program state as one record, so that the code's functions compose.
Cur ==
    [ state |-> state, isPaused |-> isPaused, currentTaskId |-> currentTaskId,
      currentTaskDescription |-> currentTaskDescription,
      isGeneratingUserStories |-> isGeneratingUserStories,
      isImplementingUserStory |-> isImplementingUserStory,
      currentUserStoryDescription |-> currentUserStoryDescription,
      iterationCount |-> iterationCount, taskHistory |-> taskHistory,
      trCurrentTask |-> trCurrentTask, maxIterations |-> maxIterations,
      cdTimer |-> cdTimer, imTimer |-> imTimer, imIsWaiting |-> imIsWaiting,
      imIsPaused |-> imIsPaused, prdCheckInterval |-> prdCheckInterval,
      pwWatcher |-> pwWatcher, pwEnabled |-> pwEnabled,
      pwLastContent |-> pwLastContent, awCallback |-> awCallback,
      isStarted |-> isStarted, currentSession |-> currentSession,
      prd |-> prd, stories |-> stories, threads |-> threads,
      budget |-> budget,
      afterStop |-> afterStop, stopDone |-> stopDone,
      fx |-> {} ]

NoCommand == [op |-> "none", fx |-> {}]

Set(n, op) ==
    /\ state' = n.state
    /\ isPaused' = n.isPaused
    /\ currentTaskId' = n.currentTaskId
    /\ currentTaskDescription' = n.currentTaskDescription
    /\ isGeneratingUserStories' = n.isGeneratingUserStories
    /\ isImplementingUserStory' = n.isImplementingUserStory
    /\ currentUserStoryDescription' = n.currentUserStoryDescription
    /\ iterationCount' = n.iterationCount
    /\ taskHistory' = n.taskHistory
    /\ trCurrentTask' = n.trCurrentTask
    /\ maxIterations' = n.maxIterations
    /\ cdTimer' = n.cdTimer
    /\ imTimer' = n.imTimer
    /\ imIsWaiting' = n.imIsWaiting
    /\ imIsPaused' = n.imIsPaused
    /\ prdCheckInterval' = n.prdCheckInterval
    /\ pwWatcher' = n.pwWatcher
    /\ pwEnabled' = n.pwEnabled
    /\ pwLastContent' = n.pwLastContent
    /\ awCallback' = n.awCallback
    /\ isStarted' = n.isStarted
    /\ currentSession' = n.currentSession
    /\ prd' = n.prd
    /\ stories' = n.stories
    /\ threads' = n.threads
    /\ budget' = n.budget
    /\ afterStop' = n.afterStop
    /\ stopDone' = n.stopDone
    /\ last' = [op |-> op, fx |-> n.fx]
    /\ UNCHANGED << exec, countdown, backoff, monitor, creation, store >>

\* A suspended continuation: where it waits, and the task and story held in
\* its local variables.  History: org, what its call chain goes back to
\* ("resume": a resumeLoop(); "late": a callback that was pending when
\* stopLoop() ran on a running loop; "call": anything else), and, for gateway
\* calls, mark (1 = in flight when pauseLoop() ran, 2 = still in flight when
\* the following resumeLoop() ran).
Thread(pc, org, t, st) ==
    [pc |-> pc, org |-> org, t |-> t, st |-> st, mark |-> 0]

Spawn(s, th) == [s EXCEPT !.threads = @ (+) SetToBag({th})]
Kill(s, th) == [s EXCEPT !.threads = @ (-) SetToBag({th})]
Emit(s, tag) == [s EXCEPT !.fx = @ \cup {tag}]

GatewayPcs == {"gw_gen", "gw_impl", "gw_mark", "gw_step"}

\* History: the callbacks that are pending: gateway completion, settle-delay
\* timeout, checklist-change event whose read has started, operator prompt.
CallbackPcs == {"gw_gen", "gw_impl", "gw_mark", "settle", "pw_read", "prompt"}
MarkLate(b) ==
    BagOfAll(LAMBDA th : IF th.pc \in CallbackPcs
                         THEN [th EXCEPT !.org = "late"] ELSE th, b)
InFlight(b) == {th \in BagToSet(b) : th.pc \in GatewayPcs}
RECURSIVE SumCopies(_, _)
SumCopies(b, S) ==
    IF S = {} THEN 0
    ELSE LET th == CHOOSE x \in S : TRUE
         IN CopiesIn(th, b) + SumCopies(b, S \ {th})
GatewayCallsInFlight(b) == SumCopies(b, InFlight(b))

\* ---------------------------------------------------------- checklist store
Eligible == {"P", "I"}             \* Pending "[ ]" and InProgress "[~]"

\* fileUtils.getNextTaskAsync: first item in document order that is Pending
\* or InProgress; 0 stands for null.
getNextTask(p) ==
    IF \E t \in Tasks : p[t] \in Eligible
    THEN CHOOSE t \in Tasks : /\ p[t] \in Eligible
                              /\ \A u \in Tasks : u < t => p[u] \notin Eligible
    ELSE 0

\* fileUtils.getTaskStatsAsync
getTaskStats(p) ==
    [ total |-> NTasks,
      completed |-> Cardinality({t \in Tasks : p[t] = "X"}),
      pending |-> Cardinality({t \in Tasks : p[t] \in Eligible}) ]

\* fileUtils.parseUserStoriesFromContent: the stories under the headings that
\* begin with the task text, as <<task, ordinal, status>>.  The empty task
\* text is a prefix of every heading, so it selects every section.
SectionsOf(t) == IF t = 0 THEN Tasks ELSE {t}
StoriesOf(sf, t) ==
    {<<u, i>> : u \in SectionsOf(t), i \in 1..MaxStories} \cap
    {<<u, i>> \in Tasks \X (1..MaxStories) : i <= Len(sf[u])}

hasUserStoriesForTask(sf, t) == StoriesOf(sf, t) # {}

areAllUserStoriesComplete(sf, t) ==
    /\ StoriesOf(sf, t) # {}
    /\ \A id \in StoriesOf(sf, t) : sf[id[1]][id[2]] = "X"

Before(a, b) == a[1] < b[1] \/ (a[1] = b[1] /\ a[2] < b[2])

\* fileUtils.getNextUserStoryAsync: first eligible story in document order.
getNextUserStory(sf, t) ==
    LET E == {id \in StoriesOf(sf, t) : sf[id[1]][id[2]] \in Eligible}
    IN IF E = {} THEN NoStory
       ELSE CHOOSE id \in E : \A o \in E : o = id \/ Before(id, o)

\* fileUtils.markUserStoryCompleteAsync: flips the first Pending/InProgress
\* line whose text matches; result is <<marked, new document>>.
markUserStoryComplete(sf, id) ==
    IF id # NoStory /\ id[2] <= Len(sf[id[1]]) /\ sf[id[1]][id[2]] \in Eligible
    THEN <<TRUE, [sf EXCEPT ![id[1]][id[2]] = "X"]>>
    ELSE <<FALSE, sf>>

\* ------------------------------------------------------------------ timers
\* CountdownTimer.stop
countdownStop(s) == [s EXCEPT !.cdTimer = FALSE]
\* CountdownTimer.start: stops the previous countdown, arms the interval.
countdownStart(s) == [countdownStop(s) EXCEPT !.cdTimer = TRUE]

\* InactivityMonitor.stop
inactivityStop(s) == [s EXCEPT !.imTimer = FALSE, !.imIsWaiting = FALSE]
\* InactivityMonitor.start
inactivityStart(s) ==
    [inactivityStop(s) EXCEPT !.imIsWaiting = TRUE, !.imIsPaused = FALSE,
                              !.imTimer = TRUE]
\* InactivityMonitor.setWaiting(true)
inactivitySetWaiting(s) == [s EXCEPT !.imIsWaiting = TRUE]
\* InactivityMonitor.pause / resume
inactivityPause(s) == [s EXCEPT !.imIsPaused = TRUE]
inactivityResume(s) == [s EXCEPT !.imIsPaused = FALSE]

\* ---------------------------------------------------------------- watchers
\* PrdWatcher.dispose / start / enable / disable / updateContent
prdWatcherDispose(s) == [s EXCEPT !.pwWatcher = FALSE, !.pwEnabled = FALSE]
prdWatcherStart(s, content) ==
    [prdWatcherDispose(s) EXCEPT !.pwLastContent = content, !.pwWatcher = TRUE]
prdWatcherEnable(s) == [s EXCEPT !.pwEnabled = TRUE]
prdWatcherDisable(s) == [s EXCEPT !.pwEnabled = FALSE]
prdWatcherUpdateContent(s, content) == [s EXCEPT !.pwLastContent = content]

\* ActivityWatcher.start / dispose; the callback is either
\* recordActivity ("record") or recordActivity + checkUserStoriesProgress
\* ("check").
activityWatcherStart(s, cb) == [s EXCEPT !.awCallback = cb]
activityWatcherDispose(s) == [s EXCEPT !.awCallback = "none"]

\* FileWatcherManager.dispose
fileWatchersDispose(s) == activityWatcherDispose(prdWatcherDispose(s))

\* -------------------------------------------------------------- TaskRunner
\* checkIterationLimit that lets the counter pass the ceiling by one.
checkIterationLimit_gt(s) ==
    s.maxIterations > 0 /\ s.iterationCount > s.maxIterations

\* TaskRunner.checkIterationLimit
checkIterationLimit(s) ==
    s.maxIterations > 0 /\ s.iterationCount >= s.maxIterations

\* TaskRunner.incrementIteration
incrementIteration(s) == [s EXCEPT !.iterationCount = @ + 1]

\* TaskRunner.resetIterations
resetIterations(s) == [s EXCEPT !.iterationCount = 0]

\* TaskRunner.setCurrentTask
setCurrentTask(s, t) == [s EXCEPT !.trCurrentTask = t]

\* TaskRunner.clearHistory
clearHistory(s) == [s EXCEPT !.taskHistory = <<>>]

\* TaskRunner.recordTaskCompletion; `by` records which detector called it.
recordTaskCompletion(s, by) ==
    [s EXCEPT !.taskHistory =
        Append(@, [task |-> s.trCurrentTask, iteration |-> s.iterationCount,
                   by |-> by])]

\* ------------------------------------------------------------ orchestrator
Running(s) == s.state = "RUNNING" /\ ~s.isPaused

\* LoopOrchestrator.stopPrdCompletionCheck / startPrdCompletionCheck
stopPrdCompletionCheck(s) == [s EXCEPT !.prdCheckInterval = FALSE]
startPrdCompletionCheck(s) ==
    [stopPrdCompletionCheck(s) EXCEPT !.prdCheckInterval = TRUE]

\* stopLoopFinish with the reset of the active task left out.
stopLoopFinish_keepsTask(s) ==
    [s EXCEPT !.state = "IDLE", !.isPaused = FALSE, !.stopDone = TRUE]

\* LoopOrchestrator.stopLoop after `await this.taskRunner.abortCopilot()`.
stopLoopFinish(s) ==
    [s EXCEPT !.state = "IDLE", !.isPaused = FALSE,
              !.currentTaskDescription = 0, !.currentTaskId = 0,
              !.stopDone = TRUE]

\* stopLoop that also resets the iteration counter.
stopLoop_resets(s, org) ==
    LET a == fileWatchersDispose(s)
        b == countdownStop(a)
        c == inactivityStop(b)
        d == stopPrdCompletionCheck(c)
        e == Emit(IF s.state = "RUNNING"
                  THEN [d EXCEPT !.afterStop = TRUE, !.threads = MarkLate(@)]
                  ELSE d, "abort")
        f == [e EXCEPT !.iterationCount = 0]
    IN IF f.currentSession
       THEN Spawn(f, Thread("stop_abort", org, 0, NoStory))
       ELSE stopLoopFinish(f)

\* LoopOrchestrator.stopLoop up to the abort.  CopilotSdkService.abort awaits
\* session.abort() only when a session exists; without one the rest of
\* stopLoop runs in the same slice.
stopLoop(s, org) ==
    LET a == fileWatchersDispose(s)
        b == countdownStop(a)
        c == inactivityStop(b)
        d == stopPrdCompletionCheck(c)
        e == Emit(IF s.state = "RUNNING"
                  THEN [d EXCEPT !.afterStop = TRUE, !.threads = MarkLate(@)]
                  ELSE d, "abort")
    IN IF e.currentSession
       THEN Spawn(e, Thread("stop_abort", org, 0, NoStory))
       ELSE stopLoopFinish(e)

\* LoopOrchestrator.startCountdown up to `await this.countdownTimer.start()`.
startCountdown(s) == countdownStart(s)

\* LoopOrchestrator.runNextTask up to `await getTaskStatsAsync()`.
runNextTask(s, org) ==
    IF ~Running(s) THEN s
    ELSE Spawn(s, Thread("rt_stats", org, 0, NoStory))

\* LoopOrchestrator.runNextUserStory up to
\* `await areAllUserStoriesCompleteAsync(this.currentTaskDescription)`.
runNextUserStory(s, org) ==
    IF ~Running(s) THEN s
    ELSE Spawn(s, Thread("ru_all", org, s.currentTaskDescription, NoStory))

\* runNextTask resumed with the stats: the all-complete exit (the line
\* appended to the Progress Log, then stopLoop), else on to
\* `await getNextTaskAsync()`.
rt_stats(s, th) ==
    IF getTaskStats(s.prd).pending = 0
    THEN stopLoop(Emit(s, "progress:allDone"), th.org)
    ELSE Spawn(s, Thread("rt_next", th.org, 0, NoStory))

\* runNextTask resumed with the next task: the no-more-tasks exit, the
\* ceiling check and the activation, up to
\* `await hasUserStoriesForTaskAsync(task.description)`.
rt_next(s, th) ==
    LET task == getNextTask(s.prd)
    IN IF task = 0 THEN stopLoop(Emit(s, "log:noMoreTasks"), th.org)
       ELSE IF checkIterationLimit(s) THEN stopLoop(Emit(s, "limit"), th.org)
       ELSE LET a == setCurrentTask(incrementIteration(s), task)
                b == [a EXCEPT !.currentTaskId = task,
                               !.currentTaskDescription = task]
            IN Spawn(Emit(b, "activate"), Thread("rt_has", th.org, task, NoStory))

\* runNextTask resumed with hasStories: generate a breakdown or enter the
\* sub-item cycle.
rt_has(s, th) ==
    IF ~hasUserStoriesForTask(s.stories, th.t)
    THEN Spawn([s EXCEPT !.isGeneratingUserStories = TRUE,
                         !.isImplementingUserStory = FALSE],
               Thread("gw_gen", th.org, th.t, NoStory))
    ELSE runNextUserStory(s, th.org)

\* TaskRunner.triggerUserStoriesGeneration onComplete (appendProgressAsync),
\* the orchestrator's callback (which schedules the settle-delay timeout),
\* and the rest of runNextTask after the gateway call.
generationCallback(s, th) ==
    LET a == Emit(s, "progress:generated")
        b == [a EXCEPT !.isGeneratingUserStories = FALSE]
        c == Spawn(b, Thread("settle", th.org, 0, NoStory))
    IN inactivitySetWaiting(c)

\* The setTimeout(..., 1000) callbacks of runNextTask and runNextUserStory.
settle(s, th) == runNextUserStory(s, th.org)

\* runNextUserStory resumed with the breakdown document: all stories
\* complete, or the next story and its implementation call.
ru_all(s, th) ==
    LET story == getNextUserStory(s.stories, s.currentTaskDescription)
    IN IF areAllUserStoriesComplete(s.stories, th.t)
       THEN Spawn(s, Thread("ru_next", th.org, 0, NoStory))
       ELSE IF story = NoStory THEN startCountdown(s)
       ELSE Spawn([s EXCEPT !.isImplementingUserStory = TRUE,
                            !.isGeneratingUserStories = FALSE,
                            !.currentUserStoryDescription = story],
                  Thread("gw_impl", th.org, s.currentTaskDescription, story))

\* runNextUserStory, all stories complete, resumed with the next task:
\* record the completion and count down, or ask the gateway to mark the item.
ru_next(s, th) ==
    LET task == getNextTask(s.prd)
    IN IF task = 0 \/ task # s.currentTaskDescription
       THEN startCountdown(Emit(recordTaskCompletion(s, "direct"),
                                "progress:completed"))
       ELSE Spawn(s, Thread("gw_mark", th.org, s.currentTaskDescription, NoStory))

\* The rest of runNextUserStory after the mark-complete gateway call.
markCompleteReturned(s) ==
    LET a == prdWatcherUpdateContent(s, s.prd)
        b == prdWatcherEnable(a)
        c == inactivitySetWaiting(b)
    IN startPrdCompletionCheck(c)

\* TaskRunner.triggerUserStoryImplementation onComplete
\* (markUserStoryCompleteAsync, appendProgressAsync), the orchestrator's
\* callback, and the rest of runNextUserStory after the gateway call:
\* setupUserStoriesWatcher and setWaiting(true).
implementationCallback(s, th) ==
    LET r == markUserStoryComplete(s.stories, th.st)
        a == [s EXCEPT !.stories = r[2]]
        b == IF r[1] THEN Emit(a, "progress:userStory") ELSE a
        c == [b EXCEPT !.isImplementingUserStory = FALSE,
                       !.currentUserStoryDescription = NoStory]
        d == Spawn(c, Thread("settle", th.org, 0, NoStory))
        e == activityWatcherStart(d, "check")
        f == inactivityStart(e)
    IN inactivitySetWaiting(f)

\* CopilotSdkService.executeTask finishing: the completion callback is
\* invoked after success and, continueOnError being true, after failure.
executeTaskDone(s, th) ==
    CASE th.pc = "gw_gen" -> generationCallback(s, th)
      [] th.pc = "gw_impl" -> implementationCallback(s, th)
      [] th.pc = "gw_mark" -> markCompleteReturned(s)
      [] OTHER -> s

\* The setInterval callback of startPrdCompletionCheck, up to
\* `await getNextTaskAsync()`.
prdCheckTick(s) ==
    IF ~Running(s) THEN stopPrdCompletionCheck(s)
    ELSE Spawn(s, Thread("poll_next", "call", 0, NoStory))

\* ... resumed with the next task.
poll_next(s, th) ==
    LET task == getNextTask(s.prd)
    IN IF task = 0 \/ task # s.currentTaskDescription
       THEN LET a == stopPrdCompletionCheck(s)
                b == prdWatcherDisable(a)
                c == inactivityStop(b)
                d == recordTaskCompletion(c, "poll")
            IN startCountdown(Emit(d, "progress:completed"))
       ELSE s

\* PrdWatcher onDidChange handler up to `await readPRDAsync()`.
prdWatcherOnChange(s) ==
    IF ~s.pwEnabled THEN s
    ELSE Spawn(s, Thread("pw_read", "call", 0, NoStory))

\* LoopOrchestrator.handlePrdChange
handlePrdChange(s, newContent) ==
    LET a == prdWatcherUpdateContent(s, newContent)
        task == getNextTask(s.prd)
    IN IF task = 0 \/ task # s.trCurrentTask
       THEN LET b == prdWatcherDisable(a)
                c == inactivityStop(b)
                d == recordTaskCompletion(c, "watch")
            IN startCountdown(Emit(d, "progress:completed"))
       ELSE a

\* The onDidChange handler resumed with the content.
pw_read(s, th) ==
    IF s.prd # s.pwLastContent
    THEN handlePrdChange(prdWatcherUpdateContent(s, s.prd), s.prd)
    ELSE s

\* LoopOrchestrator.checkUserStoriesProgress up to its await (the callback
\* installed by setupUserStoriesWatcher).
checkUserStoriesProgress(s) ==
    IF s.isGeneratingUserStories
    THEN Spawn(s, Thread("ck_has", "call", s.currentTaskDescription, NoStory))
    ELSE IF s.isImplementingUserStory
    THEN Spawn(s, Thread("ck_story", "call", s.currentTaskDescription, NoStory))
    ELSE s

\* ... resumed with hasStories.
ck_has(s, th) ==
    IF hasUserStoriesForTask(s.stories, th.t)
    THEN startCountdown(inactivityStop([s EXCEPT !.isGeneratingUserStories = FALSE]))
    ELSE s

\* ... resumed with the next story.
ck_story(s, th) ==
    LET story == getNextUserStory(s.stories, th.t)
    IN IF story = NoStory \/ story # s.currentUserStoryDescription
       THEN LET a == [s EXCEPT !.isImplementingUserStory = FALSE,
                               !.currentUserStoryDescription = NoStory]
            IN startCountdown(Emit(inactivityStop(a), "progress:userStory"))
       ELSE s

\* The InactivityMonitor interval callback when the timeout has elapsed:
\* stop(), then LoopOrchestrator.handleInactivity up to the prompt.
inactivityTimeout(s) ==
    Spawn(inactivityStop(s), Thread("prompt", "call", 0, NoStory))

Answers == {"Continue Waiting", "Retry Task", "Skip Task", "Stop Loop"}

\* handleInactivity resumed with the operator's answer.
handleInactivity(s, th, action) ==
    CASE action = "Retry Task" -> runNextTask(prdWatcherDisable(s), th.org)
      [] action = "Skip Task" ->
            startCountdown(setCurrentTask(prdWatcherDisable(s), 0))
      [] action = "Stop Loop" -> stopLoop(s, th.org)
      [] OTHER -> inactivityStart(s)

\* The last tick of the countdown: CountdownTimer stops itself and resolves,
\* and LoopOrchestrator.startCountdown continues up to its first file read.
countdownComplete(s) ==
    LET a == countdownStop(s)
    IN IF ~Running(a) THEN a
       ELSE IF a.currentTaskDescription # 0
       THEN Spawn(a, Thread("cd_has", "call", a.currentTaskDescription, NoStory))
       ELSE runNextTask(a, "call")

\* startCountdown resumed with hasStories and allComplete.
cd_has(s, th) ==
    IF /\ hasUserStoriesForTask(s.stories, th.t)
       /\ ~areAllUserStoriesComplete(s.stories, s.currentTaskDescription)
    THEN runNextUserStory(s, th.org)
    ELSE runNextTask(s, th.org)

\* startLoop without the check for a running loop.
startLoop_noGuard(s) ==
    LET a == [s EXCEPT !.afterStop = FALSE, !.stopDone = FALSE]
    IN IF s.isStarted
       THEN Spawn(a, Thread("sl_stats", "call", 0, NoStory))
       ELSE Spawn(a, Thread("sl_copilot", "call", 0, NoStory))

\* LoopOrchestrator.startLoop up to its first await.
startLoop(s) ==
    IF s.state = "RUNNING" THEN Emit(s, "log:alreadyRunning")
    ELSE LET a == [s EXCEPT !.afterStop = FALSE, !.stopDone = FALSE]
         IN IF s.isStarted
            THEN Spawn(a, Thread("sl_stats", "call", 0, NoStory))
            ELSE Spawn(a, Thread("sl_copilot", "call", 0, NoStory))

\* startLoop resumed with the result of startCopilotService
\* (CopilotSdkService.start).
sl_copilot(s, th, ok) ==
    IF ok THEN Spawn([s EXCEPT !.isStarted = TRUE],
                     Thread("sl_stats", "call", 0, NoStory))
    ELSE Emit(s, "log:copilotFailed")

\* startLoop resumed with the stats: the no-pending exit, or the reset of the
\* run state, up to readPRDAsync in setupWatchers.
sl_stats(s, th) ==
    IF getTaskStats(s.prd).pending = 0
    THEN Emit(s, "log:noPending")
    ELSE LET a == clearHistory(s)
             b == [a EXCEPT !.state = "RUNNING", !.isPaused = FALSE]
             c == resetIterations(b)
         IN Spawn(Emit(c, "reset"), Thread("sl_watch", "call", 0, NoStory))

\* LoopOrchestrator.setupWatchers resumed with the content, then
\* runNextTask.
sl_watch(s, th) ==
    LET a == prdWatcherStart(s, s.prd)
        b == activityWatcherStart(a, "record")
        c == inactivityStart(b)
    IN runNextTask(c, "call")

\* Ghost: mark the gateway calls in flight.
MarkInFlight(b, from, to) ==
    BagOfAll(LAMBDA th : IF th.pc \in GatewayPcs /\ th.mark \in from
                         THEN [th EXCEPT !.mark = to] ELSE th, b)

\* pauseLoop that leaves the countdown running.
pauseLoop_keepsCountdown(s) ==
    IF s.state # "RUNNING" THEN s
    ELSE LET a == [s EXCEPT !.isPaused = TRUE]
             b == prdWatcherDisable(a)
             c == inactivityPause(b)
         IN [c EXCEPT !.threads = MarkInFlight(@, {0, 1, 2}, 1)]

\* pauseLoop without the check for a running loop.
pauseLoop_noGuard(s) ==
    LET a == [s EXCEPT !.isPaused = TRUE]
        b == prdWatcherDisable(a)
        c == inactivityPause(b)
        d == countdownStop(c)
    IN [d EXCEPT !.threads = MarkInFlight(@, {0, 1, 2}, 1)]

\* LoopOrchestrator.pauseLoop
pauseLoop(s) ==
    IF s.state # "RUNNING" THEN s
    ELSE LET a == [s EXCEPT !.isPaused = TRUE]
             b == prdWatcherDisable(a)
             c == inactivityPause(b)
             d == countdownStop(c)
         IN [d EXCEPT !.threads = MarkInFlight(@, {0, 1, 2}, 1)]

\* LoopOrchestrator.resumeLoop
resumeLoop(s) ==
    IF ~s.isPaused THEN s
    ELSE LET a == [s EXCEPT !.isPaused = FALSE,
                            !.threads = MarkInFlight(@, {1}, 2)]
             b == inactivityResume(a)
         IN runNextTask(b, "resume")

\* runSingleStep without the check for a running loop.
runSingleStep_noGuard(s) == Spawn(s, Thread("ss_next", "call", 0, NoStory))

\* LoopOrchestrator.runSingleStep up to `await getNextTaskAsync()`.
runSingleStep(s) ==
    IF s.state = "RUNNING" THEN Emit(s, "log:cannotStep")
    ELSE Spawn(s, Thread("ss_next", "call", 0, NoStory))

\* ... resumed with the next task.
ss_next(s, th) ==
    LET task == getNextTask(s.prd)
    IN IF task = 0 THEN Emit(s, "log:noPending")
       ELSE IF checkIterationLimit(s) THEN Emit(s, "limit")
       ELSE Spawn(Emit(setCurrentTask(incrementIteration(s), task), "activate"),
                  Thread("gw_step", "call", task, NoStory))

\* --------------------------------------- CopilotSdkService.executeTask
\* The call of executeTask in progress: its options, its locals
\* (attempt, success, lastError), where it is suspended, what it returned,
\* and, as history, the events of the call in order and the length of that
\* list when abort() was called (-1: not called).
NoCall ==
    [ pc |-> "idle", maxRetries |-> 0, continueOnError |-> TRUE,
      onComplete |-> FALSE, attempt |-> 0, success |-> FALSE,
      lastError |-> "undefined", result |-> "pending",
      log |-> <<>>, logAtAbort |-> -1 ]

Log(e, ev, n, err) ==
    [e EXCEPT !.log = Append(@, [ev |-> ev, n |-> n, err |-> err])]

\* An error message, by what isRetryableError can tell about it: the empty
\* string, or which of the two pattern lists have a match in it.
Errors == {"empty", "none", "retryable", "nonRetryable", "both"}

\* isRetryableError that retries whatever the message.
isRetryableError_always(error) == TRUE

\* CopilotSdkService.isRetryableError: the non-retryable patterns are
\* looked for first; a message that matches nothing is retried.
isRetryableError(error) ==
    IF error = "empty" THEN TRUE
    ELSE IF error \in {"nonRetryable", "both"} THEN FALSE
    ELSE IF error = "retryable" THEN TRUE
    ELSE TRUE

\* executeTask calling sendPrompt (suspended until it returns).
sendPrompt(e) == Log([e EXCEPT !.pc = "send"], "attempt", e.attempt, "")

\* `return success`
executeTaskReturn(e) ==
    Log([e EXCEPT !.pc = "done",
                  !.result = IF e.success THEN "true" ELSE "false"],
        "return", IF e.success THEN 1 ELSE 0, "")

\* afterLoop that invokes the callback after a failure whatever
\* continueOnError is.
afterLoop_always(e) ==
    IF e.onComplete
    THEN Log([e EXCEPT !.pc = "callback"], "callback", 0, "")
    ELSE executeTaskReturn(e)

\* executeTask after its loop: the completion callback is awaited after a
\* success, and after a failure when continueOnError is set.
afterLoop(e) ==
    IF e.onComplete /\ (e.success \/ e.continueOnError)
    THEN Log([e EXCEPT !.pc = "callback"], "callback", 0, "")
    ELSE executeTaskReturn(e)

\* executeTask up to its first sendPrompt.
executeTask(e, maxRetries, continueOnError, onComplete) ==
    LET a == [NoCall EXCEPT !.maxRetries = maxRetries,
                            !.continueOnError = continueOnError,
                            !.onComplete = onComplete]
        b == [isStarted |-> e.isStarted, currentSession |-> e.currentSession]
                @@ a
    IN IF 0 <= maxRetries THEN sendPrompt(b) ELSE afterLoop(b)

\* sendPrompt returning: createSession started the client or not, created the
\* session or not; `out` is "ok" or the error message.  Then the rest of the
\* loop body, the loop header and the backoff of the next iteration, up to
\* `await delay(backoffDelay)`.
sendPromptReturns(e, session, out) ==
    LET a == CASE session = "created" ->
                    [e EXCEPT !.isStarted = TRUE, !.currentSession = TRUE]
               [] session = "createFailed" ->
                    [e EXCEPT !.isStarted = TRUE, !.currentSession = FALSE]
               [] OTHER -> e
    IN IF out = "ok"
       THEN afterLoop(Log([a EXCEPT !.success = TRUE], "ok", a.attempt, ""))
       ELSE LET b == Log([a EXCEPT !.lastError = out], "fail", a.attempt, out)
                c == [b EXCEPT !.attempt = @ + 1]
            IN IF ~isRetryableError(out) THEN afterLoop(b)
               ELSE IF c.attempt <= c.maxRetries
               THEN Log([c EXCEPT !.pc = "delay"], "backoff", c.attempt - 1, "")
               ELSE afterLoop(c)

\* delayElapsed that re-sends without restarting the client.
delayElapsed_noRecycle(e, started) == sendPrompt(e)

\* The backoff delay elapsed: stop(), start() (which may fail), and the next
\* sendPrompt.
delayElapsed(e, started) ==
    LET a == [e EXCEPT !.currentSession = FALSE, !.isStarted = started]
    IN sendPrompt(Log(a, "recycle", 0, ""))

\* The completion callback returned or threw (the exception is caught).
onCompleteReturns(e, throws) ==
    executeTaskReturn(IF throws THEN Log(e, "threw", 0, "") ELSE e)

\* CopilotSdkService.abort: asks the session, if there is one, to abort;
\* nothing of the executeTask call is changed.
abort(e) == [e EXCEPT !.logAtAbort = Len(e.log)]

\* --------------------------------------------------------- CountdownTimer
\* The closure variable `remaining`, whether this.onTick is set, and, as
\* history, the latest start's argument, the values its onTick was called
\* with, the interval firings since, whether its promise resolved, the
\* numbers of start() and stop() calls, the number of intervals set and not
\* cleared, and the number of promises resolved.
NewCountdown ==
    [ onTick |-> FALSE, seconds |-> 0, remaining |-> 0, ticks |-> <<>>,
      elapsed |-> 0, resolved |-> FALSE, starts |-> 0, stops |-> 0,
      live |-> 0, resolutions |-> 0 ]

\* CountdownTimer.stop: clears the interval and reports 0 to the callback,
\* if one is set.
ctStop(c) ==
    [c EXCEPT !.timer = FALSE,
              !.live = IF c.timer THEN @ - 1 ELSE @,
              !.ticks = IF c.onTick THEN Append(@, 0) ELSE @]

\* start that leaves the interval of the previous start running.
ctStart_noStop(c, seconds) ==
    [c EXCEPT !.onTick = TRUE, !.seconds = seconds,
              !.remaining = seconds, !.ticks = <<seconds>>,
              !.elapsed = 0, !.resolved = FALSE, !.timer = TRUE,
              !.live = @ + 1, !.starts = @ + 1]

\* CountdownTimer.start: stop() (its 0 goes to the callback of the previous
\* start), then the new callback is set and called with the starting value,
\* and the interval is armed.
ctStart(c, seconds) ==
    [ctStop(c) EXCEPT !.onTick = TRUE, !.seconds = seconds,
                      !.remaining = seconds, !.ticks = <<seconds>>,
                      !.elapsed = 0, !.resolved = FALSE, !.timer = TRUE,
                      !.live = @ + 1, !.starts = @ + 1]

\* The setInterval callback of CountdownTimer.start.
ctTick(c) ==
    LET a == [c EXCEPT !.remaining = @ - 1,
                       !.ticks = Append(@, c.remaining - 1),
                       !.elapsed = @ + 1]
    IN IF a.remaining <= 0
       THEN [ctStop(a) EXCEPT !.resolved = TRUE, !.resolutions = @ + 1]
       ELSE a

\* ------------------------------------------------------- getBackoffDelay
NoBackoff == [attempt |-> 0, baseDelayMs |-> 0, jitter |-> 0, delay |-> -1]

MaxBackoffMs == 60000
JitterMs == 1000

\* getBackoffDelay without the cap.
getBackoffDelay_noCap(attempt, baseDelayMs, jitter) ==
    baseDelayMs * 2^attempt + jitter

\* getBackoffDelay; `jitter` is the value of Math.random() * 1000.
getBackoffDelay(attempt, baseDelayMs, jitter) ==
    LET exponentialDelay == baseDelayMs * 2^attempt
    IN IF exponentialDelay + jitter < MaxBackoffMs
       THEN exponentialDelay + jitter
       ELSE MaxBackoffMs

\* ------------------------------------------------------ InactivityMonitor
INACTIVITY_TIMEOUT_MS == 60000
INACTIVITY_CHECK_INTERVAL_MS == 10000

\* The clock (Date.now(); the object is constructed long after the epoch),
\* the field lastActivityTime, and, as history: the operation that ran last,
\* the number of times the callback was invoked since the latest start(),
\* the times of the latest pause() and resume() (-1: none), and the time the
\* callback was invoked since that resume() (-1: it was not).
NewMonitor ==
    [ now |-> 2 * INACTIVITY_TIMEOUT_MS, lastActivityTime |-> 0,
      op |-> "new", callbacks |-> 0, pausedAt |-> -1, resumedAt |-> -1,
      firedAt |-> -1 ]

\* InactivityMonitor.start
imStart(m) ==
    [inactivityStart(m) EXCEPT !.lastActivityTime = m.now,
                               !.callbacks = 0, !.op = "start"]

\* InactivityMonitor.stop
imStop(m) == [inactivityStop(m) EXCEPT !.op = "stop"]

\* InactivityMonitor.recordActivity
imRecordActivity(m) ==
    [m EXCEPT !.lastActivityTime = m.now, !.op = "recordActivity"]

\* setWaiting that leaves the baseline alone.
imSetWaiting_keepsBaseline(m, waiting) ==
    [m EXCEPT !.imIsWaiting = waiting, !.op = "setWaiting"]

\* InactivityMonitor.setWaiting
imSetWaiting(m, waiting) ==
    [m EXCEPT !.imIsWaiting = waiting,
              !.lastActivityTime = IF waiting THEN m.now ELSE @,
              !.op = "setWaiting"]

\* InactivityMonitor.pause
imPause(m) == [inactivityPause(m) EXCEPT !.pausedAt = m.now, !.op = "pause"]

\* resume that leaves the baseline alone.
imResume_keepsBaseline(m) ==
    [inactivityResume(m) EXCEPT !.resumedAt = m.now, !.firedAt = -1,
                                !.op = "resume"]

\* InactivityMonitor.resume
imResume(m) ==
    [inactivityResume(m) EXCEPT !.lastActivityTime = m.now,
                                !.resumedAt = m.now, !.firedAt = -1,
                                !.op = "resume"]

\* The interval callback that invokes the callback and goes on polling.
imPoll_noStop(m) ==
    IF ~m.imIsWaiting \/ m.imIsPaused THEN [m EXCEPT !.op = "poll"]
    ELSE IF m.now - m.lastActivityTime >= INACTIVITY_TIMEOUT_MS
    THEN [m EXCEPT !.callbacks = @ + 1, !.firedAt = m.now, !.op = "poll"]
    ELSE [m EXCEPT !.op = "poll"]

\* The setInterval callback of InactivityMonitor.start.
imPoll(m) ==
    IF ~m.imIsWaiting \/ m.imIsPaused THEN [m EXCEPT !.op = "poll"]
    ELSE IF m.now - m.lastActivityTime >= INACTIVITY_TIMEOUT_MS
    THEN [inactivityStop(m) EXCEPT !.callbacks = @ + 1, !.firedAt = m.now,
                                   !.op = "poll"]
    ELSE [m EXCEPT !.op = "poll"]

\* ----------------------------------------------------- PrdCreationWatcher
\* The fields watcher and enabled, the checklist file ("absent", "blank":
\* nothing but white space, or "text"), the number of handlers suspended at
\* `await readPRDAsync()`, and, as history, the numbers of start() calls, of
\* file events delivered and of callback invocations since the latest start().
NewCreation ==
    [ watcher |-> FALSE, enabled |-> FALSE, content |-> "absent",
      reading |-> 0, starts |-> 0, events |-> 0, callbacks |-> 0 ]

\* PrdCreationWatcher.dispose
prdCreationDispose(c) == [c EXCEPT !.watcher = FALSE, !.enabled = FALSE]

\* PrdCreationWatcher.start
prdCreationStart(c) ==
    [prdCreationDispose(c) EXCEPT !.enabled = TRUE, !.watcher = TRUE,
                                  !.starts = @ + 1, !.callbacks = 0]

\* PrdCreationWatcher.disable
prdCreationDisable(c) == [c EXCEPT !.enabled = FALSE]

\* onPrdCreated (the handler of create and of change events) up to
\* `await readPRDAsync()`.
onPrdCreated(c) ==
    LET a == [c EXCEPT !.events = @ + 1]
    IN IF ~a.enabled THEN a ELSE [a EXCEPT !.reading = @ + 1]

\* onPrdCreated resumed with the content; the callback is the one of
\* LoopOrchestrator.setupPrdCreationWatcher, which disposes the watcher.
onPrdCreatedRead(c) ==
    LET a == [c EXCEPT !.reading = @ - 1]
    IN IF a.content = "text"
       THEN prdCreationDispose([a EXCEPT !.enabled = FALSE,
                                         !.callbacks = @ + 1])
       ELSE a

\* ------------------------------------------------------------ the documents
\* A document is the tuple of its lines (content.split('\n')), a line the
\* tuple of its characters.  The characters are "-", "*", " ", "[", "]", "#",
\* ":", the markers "x", "X", "~", "!" and the letters of the texts.
toLower(ch) == CASE ch = "X" -> "x" [] ch = "T" -> "t" [] OTHER -> ch
toLowerCase(str) == [i \in 1..Len(str) |-> toLower(str[i])]

\* Index of the first character at or after i that is not white space.
RECURSIVE skipSpaces(_, _)
skipSpaces(str, i) ==
    IF i <= Len(str) /\ str[i] = " " THEN skipSpaces(str, i + 1) ELSE i

\* Index of the last character at or before i that is not white space.
RECURSIVE skipSpacesBack(_, _)
skipSpacesBack(str, i) ==
    IF i >= 1 /\ str[i] = " " THEN skipSpacesBack(str, i - 1) ELSE i

\* String.prototype.trim
trim(str) == SubSeq(str, skipSpaces(str, 1), skipSpacesBack(str, Len(str)))

\* String.prototype.includes
includes(str, sub) ==
    \E i \in 0..(Len(str) - Len(sub)) : SubSeq(str, i + 1, i + Len(sub)) = sub

startsWith(str, sub) ==
    Len(sub) <= Len(str) /\ SubSeq(str, 1, Len(sub)) = sub

NoMatch == [ok |-> FALSE, bullet |-> <<>>, marker |-> "", text |-> <<>>]

\* /^([-*]\s*)\[([markers])\]\s*(.+)$/im on one line: the flag i makes the
\* marker class match either case; \s* after "]" is greedy and gives one
\* character back when nothing is left for (.+).
checkbox(line, markers) ==
    IF Len(line) = 0 \/ line[1] \notin {"-", "*"} THEN NoMatch
    ELSE LET i == skipSpaces(line, 2)
         IN IF \/ i + 2 >= Len(line)
               \/ line[i] # "["
               \/ toLower(line[i + 1]) \notin markers
               \/ line[i + 2] # "]"
            THEN NoMatch
            ELSE LET j == skipSpaces(line, i + 3)
                     k == IF j > Len(line) THEN Len(line) ELSE j
                 IN [ ok |-> TRUE, bullet |-> SubSeq(line, 1, i - 1),
                      marker |-> line[i + 1],
                      text |-> SubSeq(line, k, Len(line)) ]

TaskMarkers == {" ", "x", "~", "!"}
StoryMarkers == {" ", "x", "~"}
OpenMarkers == {" ", "~"}

\* TaskStatus / UserStoryStatus of a lower-cased marker.
statusOf(marker) ==
    CASE marker = "x" -> "X" [] marker = "~" -> "I" [] marker = "!" -> "B"
      [] OTHER -> "P"

NoTask == [lineNumber |-> 0, description |-> <<>>, status |-> "none",
           rawLine |-> <<>>]

\* fileUtils.parseTasksFromContent, from line i on.
RECURSIVE parseTasksFrom(_, _)
parseTasksFrom(lines, i) ==
    IF i > Len(lines) THEN <<>>
    ELSE LET match == checkbox(lines[i], TaskMarkers)
         IN (IF match.ok
             THEN << [ lineNumber |-> i, description |-> trim(match.text),
                       status |-> statusOf(toLower(match.marker)),
                       rawLine |-> lines[i] ] >>
             ELSE <<>>) \o parseTasksFrom(lines, i + 1)

parseTasksFromContent(content) == parseTasksFrom(content, 1)

\* Array.prototype.find over the statuses in S; none is the value of null.
find(items, S, none) ==
    IF \E i \in DOMAIN items : items[i].status \in S
    THEN items[CHOOSE i \in DOMAIN items :
                 /\ items[i].status \in S
                 /\ \A j \in 1..(i - 1) : items[j].status \notin S]
    ELSE none

count(items, S) == Cardinality({i \in DOMAIN items : items[i].status \in S})

getNextTaskAsync_notComplete(content) ==
    find(parseTasksFromContent(content), {"P", "I", "B"}, NoTask)

\* fileUtils.getNextTaskAsync on the content of the checklist.
getNextTaskAsync(content) ==
    find(parseTasksFromContent(content), Eligible, NoTask)

NoStats == [total |-> 0, completed |-> 0, pending |-> 0]

getTaskStatsAsync_notComplete(content) ==
    LET tasks == parseTasksFromContent(content)
    IN [ total |-> Len(tasks), completed |-> count(tasks, {"X"}),
         pending |-> count(tasks, {"P", "I", "B"}) ]

\* fileUtils.getTaskStatsAsync on the content of the checklist.
getTaskStatsAsync(content) ==
    LET tasks == parseTasksFromContent(content)
    IN [ total |-> Len(tasks), completed |-> count(tasks, {"X"}),
         pending |-> count(tasks, Eligible) ]

\* line.match(/^##\s+Task:/i): ok, and what follows the colon.
taskHeading(line) ==
    IF Len(line) < 2 \/ line[1] # "#" \/ line[2] # "#"
    THEN [ok |-> FALSE, rest |-> <<>>]
    ELSE LET i == skipSpaces(line, 3)
         IN IF /\ i > 3 /\ i + 4 <= Len(line)
               /\ toLowerCase(SubSeq(line, i, i + 4))
                    = <<"t", "a", "s", "k", ":">>
            THEN [ok |-> TRUE, rest |-> SubSeq(line, i + 5, Len(line))]
            ELSE [ok |-> FALSE, rest |-> <<>>]

\* The pattern anchored at the end of the line: the heading's text is the
\* description and nothing more.
taskSectionPattern_exact(line, taskId) ==
    LET h == taskHeading(line)
    IN /\ h.ok
       /\ \E k \in 1..skipSpaces(h.rest, 1) :
            toLowerCase(SubSeq(h.rest, k, Len(h.rest))) = toLowerCase(taskId)

\* taskSectionPattern.test(line): /^##\s+Task:\s*<taskId>/i, a prefix match.
taskSectionPattern(line, taskId) ==
    LET h == taskHeading(line)
    IN /\ h.ok
       /\ \E k \in 1..skipSpaces(h.rest, 1) :
            startsWith(toLowerCase(SubSeq(h.rest, k, Len(h.rest))),
                       toLowerCase(taskId))

\* fileUtils.parseUserStoriesFromContent, from line i on.
RECURSIVE parseUserStoriesFrom(_, _, _, _)
parseUserStoriesFrom(lines, taskId, i, inTaskSection) ==
    IF i > Len(lines) THEN <<>>
    ELSE IF taskHeading(lines[i]).ok
    THEN parseUserStoriesFrom(lines, taskId, i + 1,
                              taskSectionPattern(lines[i], taskId))
    ELSE IF ~inTaskSection
    THEN parseUserStoriesFrom(lines, taskId, i + 1, inTaskSection)
    ELSE LET match == checkbox(lines[i], StoryMarkers)
         IN (IF match.ok
             THEN << [ lineNumber |-> i, description |-> trim(match.text),
                       status |-> statusOf(toLower(match.marker)),
                       rawLine |-> lines[i] ] >>
             ELSE <<>>)
            \o parseUserStoriesFrom(lines, taskId, i + 1, inTaskSection)

parseUserStoriesFromContent(content, taskId) ==
    parseUserStoriesFrom(content, taskId, 1, FALSE)

\* fileUtils.getNextUserStoryAsync on the content of the breakdown.
getNextUserStoryAsync(content, taskId) ==
    find(parseUserStoriesFromContent(content, taskId), Eligible, NoTask)

\* fileUtils.hasUserStoriesForTaskAsync on the content of the breakdown.
hasUserStoriesForTaskAsync(content, taskId) ==
    Len(parseUserStoriesFromContent(content, taskId)) > 0

\* fileUtils.areAllUserStoriesCompleteAsync on the content of the breakdown.
areAllUserStoriesCompleteAsync(content, taskId) ==
    LET stories_ == parseUserStoriesFromContent(content, taskId)
    IN IF Len(stories_) = 0 THEN FALSE
       ELSE \A i \in DOMAIN stories_ : stories_[i].status = "X"

\* fileUtils.ts markUserStoryCompleteAsync, from line i on: rewrites the
\* first line with an open marker whose text equals, contains or is contained
\* in the target, whatever heading it stands under.
RECURSIVE markUserStoryFrom(_, _, _)
markUserStoryFrom(lines, target, i) ==
    IF i > Len(lines) THEN [marked |-> FALSE, content |-> lines]
    ELSE LET match == checkbox(lines[i], OpenMarkers)
             description == trim(match.text)
         IN IF /\ match.ok
               /\ \/ description = trim(target)
                  \/ includes(description, trim(target))
                  \/ includes(trim(target), description)
            THEN [ marked |-> TRUE,
                   content |-> [lines EXCEPT ![i] =
                      match.bullet \o <<"[", "x", "]", " ">> \o description] ]
            ELSE markUserStoryFrom(lines, target, i + 1)

markUserStoryCompleteAsync(content, userStoryDescription) ==
    markUserStoryFrom(content, userStoryDescription, 1)

\* String.prototype.replace with a global pattern of literal characters.
RECURSIVE replaceAll(_, _, _)
replaceAll(str, pattern, replacement) ==
    IF Len(str) < Len(pattern) THEN str
    ELSE IF startsWith(str, pattern)
    THEN replacement
         \o replaceAll(SubSeq(str, Len(pattern) + 1, Len(str)),
                       pattern, replacement)
    ELSE <<Head(str)>> \o replaceAll(Tail(str), pattern, replacement)

\* content.replace(new RegExp(`(- \\[[markers]\\] )${escapedDesc}`, 'g'),
\* `- [x] ${description}`): the pattern spans no line break, so the
\* replacement is made line by line.
replaceMarked(content, markers, description) ==
    LET step(line, m) ==
            replaceAll(line, <<"-", " ", "[", m, "]", " ">> \o description,
                       <<"-", " ", "[", "x", "]", " ">> \o description)
        RECURSIVE each(_, _)
        each(line, M) ==
            IF M = {} THEN line
            ELSE LET m == CHOOSE x \in M : TRUE
                 IN each(step(line, m), M \ {m})
        newContent == [i \in 1..Len(content) |-> each(content[i], markers)]
    IN [marked |-> newContent # content, content |-> newContent]

\* markTaskCompleteAsync (the definition the TaskRunner imports)
markTaskCompleteAsync(content, taskDescription) ==
    replaceMarked(content, {" "}, taskDescription)

\* markUserStoryCompleteAsync, the definition next to markTaskCompleteAsync
markUserStoryCompleteAsync_replace(content, storyDescription) ==
    replaceMarked(content, {" ", "-"}, storyDescription)

\* The two documents, and as history the latest call: its name, its
\* arguments, the document before it and what it returned.
\* The files behind them: whether a workspace folder is open, and for the
\* checklist at its configured path, the checklist at the fallback path
\* PRD.md, the breakdown and the progress file one of "ok", "readonly" (a
\* write is rejected), "unreadable" (it exists, a read is rejected),
\* "missing", "uncreatable" (missing, and creating it is rejected).
AllThere ==
    [ root |-> TRUE, prd |-> "ok", fallback |-> "missing", stories |-> "ok",
      progress |-> "ok" ]

NewStore(checklist, breakdown) ==
    [ checklist |-> checklist, breakdown |-> breakdown, call |-> "none",
      taskId |-> <<>>, target |-> <<>>, before |-> <<>>, task |-> NoTask,
      stats |-> NoStats, marked |-> FALSE, result |-> FALSE,
      fs |-> AllThere, fallback |-> <<>>, progress |-> <<>>, text |-> <<>> ]

NoStore == NewStore(<<>>, <<>>)

\* The texts of items and stories, and the lines the documents are drawn from.
Texts == {<<"a">>, <<"a", "b">>, <<"b">>}
Item(bullet, marker, text) == <<bullet, " ", "[", marker, "]", " ">> \o text
Heading(text) == <<"#", "#", " ", "T", "a", "s", "k", ":", " ">> \o text
ChecklistLines ==
    {Item("-", m, t) : m \in TaskMarkers, t \in {<<"a">>, <<"a", "b">>}}
    \cup { Item("*", "X", <<"b">>),            \* "* [X] b"
           <<"-", "[", " ", "]", "b">>,        \* "-[ ]b"
           <<" ">> \o Item("-", " ", <<"a">>), \* " - [ ] a", indented
           Item("-", " ", <<>>),               \* "- [ ] ", no text
           <<"-", " ", "[", " ", "]">>,        \* "- [ ]"
           <<"#", " ", "a">> }                 \* "# a"
BreakdownLines ==
    {Heading(t) : t \in Texts}
    \cup {Item("-", m, t) : m \in StoryMarkers, t \in {<<"a">>, <<"a", "b">>}}
SeqsUpTo(S, n) == UNION {[1..k -> S] : k \in 0..n}

\* ------------------------------------------------------------------ the files
\* fsPromises.access + readFile resolve, fsPromises.writeFile / appendFile
\* resolve (they create a missing file), fsPromises.access resolves.
canRead(mode) == mode \in {"ok", "readonly"}
canWrite(mode) == mode \in {"ok", "missing"}
exists(mode) == mode \in {"ok", "readonly", "unreadable"}

Null == [null |-> TRUE, content |-> <<>>]
Content(c) == [null |-> FALSE, content |-> c]

\* fileUtils.readPRDAsync: the configured path, then PRD.md at the root.
readPRDAsync(s) ==
    IF ~s.fs.root THEN Null
    ELSE IF canRead(s.fs.prd) THEN Content(s.checklist)
    ELSE IF canRead(s.fs.fallback) THEN Content(s.fallback)
    ELSE Null

\* fileUtils.readUserStoriesAsync
readUserStoriesAsync(s) ==
    IF ~s.fs.root THEN Null
    ELSE IF canRead(s.fs.stories) THEN Content(s.breakdown)
    ELSE Null

\* `if (!content) { return []; }` of parseTasksAsync and
\* getUserStoriesForTaskAsync: null and the empty string parse to no item.
orEmpty(c) == IF c.null THEN <<>> ELSE c.content

\* fileUtils.writeUserStoriesAsync: <<result, store>>.
writeUserStoriesAsync(s, content) ==
    IF s.fs.root /\ canWrite(s.fs.stories)
    THEN <<TRUE, [s EXCEPT !.breakdown = content, !.fs.stories = "ok"]>>
    ELSE <<FALSE, s>>

\* markUserStoryCompleteAsync that returns `modified` whatever the write did.
markUserStoryCompleteAsync_io_ignoresWrite(s, userStoryDescription) ==
    LET content == readUserStoriesAsync(s)
        r == markUserStoryCompleteAsync(content.content, userStoryDescription)
    IN IF content.null \/ content.content = <<>> THEN <<FALSE, s>>
       ELSE IF r.marked THEN <<TRUE, writeUserStoriesAsync(s, r.content)[2]>>
       ELSE <<FALSE, s>>

\* fileUtils.ts markUserStoryCompleteAsync with its read and its write.
markUserStoryCompleteAsync_io(s, userStoryDescription) ==
    LET content == readUserStoriesAsync(s)
        r == markUserStoryCompleteAsync(content.content, userStoryDescription)
    IN IF content.null \/ content.content = <<>> THEN <<FALSE, s>>
       ELSE IF r.marked THEN writeUserStoriesAsync(s, r.content)
       ELSE <<FALSE, s>>

\* fileUtils.readProgressAsync
readProgressAsync(s) ==
    IF s.fs.root /\ canRead(s.fs.progress) THEN s.progress ELSE <<>>

\* fileUtils.appendProgressAsync; the line is "[<timestamp>] <entry>".
appendProgressAsync(s, entry) ==
    IF s.fs.root /\ canWrite(s.fs.progress)
    THEN <<TRUE, [s EXCEPT !.progress = Append(@, <<"[", "ts", "]", entry>>),
                           !.fs.progress = "ok"]>>
    ELSE <<FALSE, s>>

\* fileUtils.ensureProgressFileAsync
ensureProgressFileAsync(s) ==
    IF ~s.fs.root THEN <<FALSE, s>>
    ELSE IF exists(s.fs.progress) THEN <<TRUE, s>>
    ELSE IF canWrite(s.fs.progress)
    THEN <<TRUE, [s EXCEPT !.progress = << <<"#", "Progress Log">> >>,
                           !.fs.progress = "ok"]>>
    ELSE <<FALSE, s>>

\* ----------------------------------------------------------------- actions
\* The objects as their constructors leave them, with the checklist on disk.
Objects ==
    /\ state = "IDLE"
    /\ isPaused = FALSE
    /\ currentTaskId = 0
    /\ currentTaskDescription = 0
    /\ isGeneratingUserStories = FALSE
    /\ isImplementingUserStory = FALSE
    /\ currentUserStoryDescription = NoStory
    /\ iterationCount = 0
    /\ taskHistory = <<>>
    /\ trCurrentTask = 0
    /\ maxIterations \in 1..MaxCeiling
    /\ cdTimer = FALSE
    /\ imTimer = FALSE
    /\ imIsWaiting = FALSE
    /\ imIsPaused = FALSE
    /\ prdCheckInterval = FALSE
    /\ pwWatcher = FALSE
    /\ pwEnabled = FALSE
    /\ pwLastContent = <<>>
    /\ awCallback = "none"
    /\ isStarted = FALSE
    /\ currentSession = FALSE
    /\ prd \in [Tasks -> {"P", "X"}]
    /\ threads = EmptyBag
    /\ afterStop = FALSE
    /\ stopDone = FALSE
    /\ last = NoCommand
    /\ exec = NoCall
    /\ countdown = NewCountdown
    /\ monitor = NewMonitor
    /\ creation = NewCreation

\* The same, with no breakdown document yet.
Constructed == Objects /\ stories = [t \in Tasks |-> <<>>]

Init == Constructed /\ budget = MaxInputs /\ backoff = NoBackoff /\ store = NoStore

\* A command, timer expiry or file event taken from the event queue.
Spend(n) == [n EXCEPT !.budget = @ - 1]

\* A slice that is not an operator command.
Do(n) == Set([n EXCEPT !.fx = {}], "none")

\* The same, with what the slice logged and appended kept in the history.
Observe(n) == Set(n, "none")

\* The continuations suspended at `pc`.
At(pc) == {th \in BagToSet(threads) : th.pc = pc}

WouldActivate == getNextTask(prd) # 0 /\ ~checkIterationLimit(Cur)

\* commands
StartLoop ==
    /\ budget > 0
    /\ Set(Spend(startLoop(Cur)), "startLoop")
PauseLoop ==
    /\ budget > 0
    /\ Set(Spend(pauseLoop(Cur)), "pauseLoop")
ResumeLoop ==
    /\ budget > 0
    /\ Set(Spend(resumeLoop(Cur)), "resumeLoop")
StopLoop ==
    /\ budget > 0
    /\ Set(Spend(stopLoop(Cur, "call")), "stopLoop")
RunSingleStep ==
    /\ budget > 0
    /\ Set(Spend(runSingleStep(Cur)), "runSingleStep")

\* timers and file events
CountdownComplete ==
    /\ cdTimer
    /\ Do(countdownComplete(Cur))
InactivityTimeout ==
    /\ budget > 0
    /\ imTimer /\ imIsWaiting /\ ~imIsPaused
    /\ Do(Spend(inactivityTimeout(Cur)))
PrdCheckTick ==
    /\ prdCheckInterval
    /\ At("poll_next") = {}
    /\ Do(prdCheckTick(Cur))
PrdWatcherOnChange ==
    /\ budget > 0
    /\ pwWatcher /\ pwEnabled
    /\ Do(Spend(prdWatcherOnChange(Cur)))
ActivityEvent ==
    /\ budget > 0
    /\ awCallback = "check"
    /\ isGeneratingUserStories \/ isImplementingUserStory
    /\ Do(Spend(checkUserStoriesProgress(Cur)))

\* continuations
StartLoopCopilot ==
    \E th \in At("sl_copilot"), ok \in BOOLEAN :
        Do(sl_copilot(Kill(Cur, th), th, ok))
StartLoopStats ==
    \E th \in At("sl_stats") : Do(sl_stats(Kill(Cur, th), th))
StartLoopWatchers ==
    \E th \in At("sl_watch") : Do(sl_watch(Kill(Cur, th), th))
StopLoopFinish ==
    \E th \in At("stop_abort") : Do(stopLoopFinish(Kill(Cur, th)))
SingleStepNext ==
    /\ WouldActivate => iterationCount < MaxIter
    /\ \E th \in At("ss_next") : Do(ss_next(Kill(Cur, th), th))
RunNextTaskStats ==
    \E th \in At("rt_stats") : Observe(rt_stats(Kill(Cur, th), th))
RunNextTaskNext ==
    /\ WouldActivate => iterationCount < MaxIter
    /\ \E th \in At("rt_next") : Observe(rt_next(Kill(Cur, th), th))
RunNextTaskHas ==
    \E th \in At("rt_has") : Do(rt_has(Kill(Cur, th), th))
SettleTimeout ==
    \E th \in At("settle") : Do(settle(Kill(Cur, th), th))
RunNextUserStoryAll ==
    \E th \in At("ru_all") : Do(ru_all(Kill(Cur, th), th))
RunNextUserStoryNext ==
    \E th \in At("ru_next") : Do(ru_next(Kill(Cur, th), th))
PrdCheckNext ==
    \E th \in At("poll_next") : Do(poll_next(Kill(Cur, th), th))
PrdWatcherRead ==
    \E th \in At("pw_read") : Do(pw_read(Kill(Cur, th), th))
CheckProgress ==
    \E th \in At("ck_has") \cup At("ck_story") :
        Do(IF th.pc = "ck_has" THEN ck_has(Kill(Cur, th), th)
           ELSE ck_story(Kill(Cur, th), th))
CountdownHas ==
    \E th \in At("cd_has") : Do(cd_has(Kill(Cur, th), th))
HandleInactivity ==
    \E th \in At("prompt"), action \in Answers :
        Do(handleInactivity(Kill(Cur, th), th, action))

\* the gateway
ExecuteTaskDone ==
    \E th \in InFlight(threads) : Do(executeTaskDone(Kill(Cur, th), th))

\* CopilotSdkService.createSession during a call in flight.
CreateSession ==
    /\ InFlight(threads) # {}
    /\ ~currentSession
    /\ Do([Cur EXCEPT !.currentSession = TRUE, !.isStarted = TRUE])

\* The executor editing the documents: the checklist while a mark-complete
\* or single-step call is in flight or while the loop waits for the mark, the
\* breakdown document while the generation call is in flight.  (The prompt of
\* an implementation call tells the executor to leave the breakdown document
\* alone; the completion callback marks the story.)
ExecutorMarksTask ==
    \E t \in Tasks :
        /\ prd[t] \in Eligible
        /\ \/ \E th \in InFlight(threads) : th.pc \in {"gw_mark", "gw_step"}
           \/ prdCheckInterval
           \/ pwEnabled
        /\ Do([Cur EXCEPT !.prd[t] = "X"])
ExecutorWritesStories ==
    \E th \in InFlight(threads), n \in 1..MaxStories :
        /\ th.pc = "gw_gen" /\ th.t \in Tasks
        /\ stories[th.t] = <<>>
        /\ Do([Cur EXCEPT !.stories[th.t] = [i \in 1..n |-> "P"]])

Next ==
    \/ StartLoop \/ PauseLoop \/ ResumeLoop \/ StopLoop \/ RunSingleStep
    \/ CountdownComplete \/ InactivityTimeout \/ PrdCheckTick
    \/ PrdWatcherOnChange \/ ActivityEvent
    \/ StartLoopCopilot \/ StartLoopStats \/ StartLoopWatchers
    \/ StopLoopFinish \/ SingleStepNext
    \/ RunNextTaskStats \/ RunNextTaskNext \/ RunNextTaskHas \/ SettleTimeout
    \/ RunNextUserStoryAll \/ RunNextUserStoryNext
    \/ PrdCheckNext \/ PrdWatcherRead
    \/ CheckProgress
    \/ CountdownHas \/ HandleInactivity
    \/ ExecuteTaskDone \/ CreateSession
    \/ ExecutorMarksTask \/ ExecutorWritesStories

Spec == Init /\ [][Next]_vars

\* The same program with one more command or event per run.
InitLong == Constructed /\ budget = MaxInputsLong /\ backoff = NoBackoff /\ store = NoStore
SpecLong == InitLong /\ [][Next]_vars

TypeOK ==
    /\ state \in {"IDLE", "RUNNING"}
    /\ isPaused \in BOOLEAN
    /\ iterationCount \in 0..MaxIter
    /\ budget \in 0..MaxInputsLong

\* -------------------------------------------- executeTask as a state machine
\* Everything but the CopilotSdkService fields and the call.
loopVars == << state, isPaused, currentTaskId, currentTaskDescription,
               isGeneratingUserStories, isImplementingUserStory,
               currentUserStoryDescription, iterationCount, taskHistory,
               trCurrentTask, maxIterations, cdTimer, imTimer, imIsWaiting,
               imIsPaused, prdCheckInterval, pwWatcher, pwEnabled,
               pwLastContent, awCallback, prd, stories, threads, budget,
               afterStop, stopDone, last, countdown, backoff, monitor,
               creation, store >>

\* The call together with the service's fields.
ExecCur == [isStarted |-> isStarted, currentSession |-> currentSession] @@ exec

SetExec(n) ==
    /\ isStarted' = n.isStarted
    /\ currentSession' = n.currentSession
    /\ exec' = [f \in DOMAIN exec |-> n[f]]
    /\ UNCHANGED loopVars

ExecuteTask ==
    /\ exec.pc = "idle"
    /\ \E maxRetries \in 0..MaxRetries, continueOnError, onComplete \in BOOLEAN :
          SetExec(executeTask(ExecCur, maxRetries, continueOnError, onComplete))
SendPromptReturns ==
    /\ exec.pc = "send"
    /\ \E session \in {"created", "createFailed", "startFailed"},
          out \in {"ok"} \cup Errors :
          /\ session = "startFailed" => ~isStarted
          /\ session # "created" => out = "none"
          /\ SetExec(sendPromptReturns(ExecCur, session, out))
DelayElapsed ==
    /\ exec.pc = "delay"
    /\ \E started \in BOOLEAN : SetExec(delayElapsed(ExecCur, started))
OnCompleteReturns ==
    /\ exec.pc = "callback"
    /\ \E throws \in BOOLEAN : SetExec(onCompleteReturns(ExecCur, throws))
Abort ==
    /\ exec.pc \in {"send", "delay"}
    /\ exec.logAtAbort = -1
    /\ SetExec(abort(ExecCur))

\* One configuration of the loop, which takes no step here.
LoopAtRest ==
    /\ Constructed
    /\ maxIterations = 1
    /\ prd = [t \in Tasks |-> "P"]
    /\ budget = 0

InitExec == LoopAtRest /\ backoff = NoBackoff /\ store = NoStore
NextExec ==
    \/ ExecuteTask \/ SendPromptReturns \/ DelayElapsed
    \/ OnCompleteReturns \/ Abort
SpecExec == InitExec /\ [][NextExec]_vars

\* ----------------------------------------- CountdownTimer as a state machine
timerVars == << state, isPaused, currentTaskId, currentTaskDescription,
                isGeneratingUserStories, isImplementingUserStory,
                currentUserStoryDescription, iterationCount, taskHistory,
                trCurrentTask, maxIterations, imTimer, imIsWaiting,
                imIsPaused, prdCheckInterval, pwWatcher, pwEnabled,
                pwLastContent, awCallback, isStarted, currentSession, prd,
                stories, threads, budget, afterStop, stopDone, last, exec,
                backoff, monitor, creation, store >>

\* The timer object: its `timer` field with the rest.
TimerCur == [timer |-> cdTimer] @@ countdown

SetTimer(n) ==
    /\ cdTimer' = n.timer
    /\ countdown' = [f \in DOMAIN countdown |-> n[f]]
    /\ UNCHANGED timerVars

TimerStart ==
    /\ countdown.starts < MaxStarts
    /\ \E seconds \in 0..MaxSeconds : SetTimer(ctStart(TimerCur, seconds))
TimerTick ==
    /\ cdTimer
    /\ SetTimer(ctTick(TimerCur))
TimerStop ==
    /\ countdown.stops < MaxStops
    /\ SetTimer([ctStop(TimerCur) EXCEPT !.stops = @ + 1])

InitTimer == LoopAtRest /\ backoff = NoBackoff /\ store = NoStore
NextTimer == TimerStart \/ TimerTick \/ TimerStop
SpecTimer == InitTimer /\ [][NextTimer]_vars

\* -------------------------------------- InactivityMonitor as a state machine
\* The monitor object: its timer and flags with the rest.
MonitorCur ==
    [imTimer |-> imTimer, imIsWaiting |-> imIsWaiting,
     imIsPaused |-> imIsPaused] @@ monitor

SetMonitor(n) ==
    /\ imTimer' = n.imTimer
    /\ imIsWaiting' = n.imIsWaiting
    /\ imIsPaused' = n.imIsPaused
    /\ monitor' = [f \in DOMAIN monitor |-> n[f]]
    /\ UNCHANGED << state, isPaused, currentTaskId, currentTaskDescription,
                    isGeneratingUserStories, isImplementingUserStory,
                    currentUserStoryDescription, iterationCount, taskHistory,
                    trCurrentTask, maxIterations, cdTimer, prdCheckInterval,
                    pwWatcher, pwEnabled, pwLastContent, awCallback,
                    isStarted, currentSession, prd, stories, threads, budget,
                    afterStop, stopDone, last, exec, countdown, backoff,
                    creation, store >>

\* Time passes (one poll interval at a time).
ClockAdvance ==
    /\ monitor.now < 2 * INACTIVITY_TIMEOUT_MS
                        + MaxPolls * INACTIVITY_CHECK_INTERVAL_MS
    /\ SetMonitor([MonitorCur EXCEPT
                      !.now = @ + INACTIVITY_CHECK_INTERVAL_MS,
                      !.op = "clock"])

\* The operations, called at any time, and the interval firing while the
\* interval is set.
NextMonitor ==
    \/ SetMonitor(imStart(MonitorCur))
    \/ SetMonitor(imStop(MonitorCur))
    \/ SetMonitor(imRecordActivity(MonitorCur))
    \/ \E waiting \in BOOLEAN : SetMonitor(imSetWaiting(MonitorCur, waiting))
    \/ SetMonitor(imPause(MonitorCur))
    \/ SetMonitor(imResume(MonitorCur))
    \/ imTimer /\ SetMonitor(imPoll(MonitorCur))
    \/ ClockAdvance

InitMonitor == LoopAtRest /\ backoff = NoBackoff /\ store = NoStore
SpecMonitor == InitMonitor /\ [][NextMonitor]_vars

\* ------------------------------------- PrdCreationWatcher as a state machine
SetCreation(n) ==
    /\ creation' = n
    /\ UNCHANGED << state, isPaused, currentTaskId, currentTaskDescription,
                    isGeneratingUserStories, isImplementingUserStory,
                    currentUserStoryDescription, iterationCount, taskHistory,
                    trCurrentTask, maxIterations, cdTimer, imTimer,
                    imIsWaiting, imIsPaused, prdCheckInterval, pwWatcher,
                    pwEnabled, pwLastContent, awCallback, isStarted,
                    currentSession, prd, stories, threads, budget, afterStop,
                    stopDone, last, exec, countdown, backoff, monitor,
                    store >>

\* The operations, the executor (or the operator) writing the checklist
\* file, a create or change event of the file delivered to a live watcher,
\* and a suspended handler resumed.
NextCreation ==
    \/ creation.starts < MaxStarts /\ SetCreation(prdCreationStart(creation))
    \/ SetCreation(prdCreationDisable(creation))
    \/ SetCreation(prdCreationDispose(creation))
    \/ \E content \in {"blank", "text"} :
          SetCreation([creation EXCEPT !.content = content])
    \/ /\ creation.watcher /\ creation.content # "absent"
       /\ creation.events < MaxEvents
       /\ SetCreation(onPrdCreated(creation))
    \/ creation.reading > 0 /\ SetCreation(onPrdCreatedRead(creation))

InitCreation == LoopAtRest /\ backoff = NoBackoff /\ store = NoStore
SpecCreation == InitCreation /\ [][NextCreation]_vars

\* ------------------------------------------- the documents' functions, applied
SetStore(n) ==
    /\ store' = n
    /\ UNCHANGED << state, isPaused, currentTaskId, currentTaskDescription,
                    isGeneratingUserStories, isImplementingUserStory,
                    currentUserStoryDescription, iterationCount, taskHistory,
                    trCurrentTask, maxIterations, cdTimer, imTimer,
                    imIsWaiting, imIsPaused, prdCheckInterval, pwWatcher,
                    pwEnabled, pwLastContent, awCallback, isStarted,
                    currentSession, prd, stories, threads, budget, afterStop,
                    stopDone, last, exec, countdown, backoff, monitor,
                    creation >>

Called(s, name, taskId, target) ==
    [s EXCEPT !.call = name, !.taskId = taskId, !.target = target,
              !.task = NoTask, !.stats = NoStats, !.marked = FALSE,
              !.result = FALSE]

GetNextTask ==
    SetStore([Called(store, "getNextTaskAsync", <<>>, <<>>) EXCEPT
                 !.before = store.checklist,
                 !.task = getNextTaskAsync(store.checklist)])

GetTaskStats ==
    SetStore([Called(store, "getTaskStatsAsync", <<>>, <<>>) EXCEPT
                 !.before = store.checklist,
                 !.stats = getTaskStatsAsync(store.checklist)])

\* markTaskCompleteAsync applied to the checklist.
MarkTaskComplete ==
    \E taskDescription \in Texts :
       LET r == markTaskCompleteAsync(store.checklist, taskDescription)
       IN SetStore([Called(store, "markTaskCompleteAsync", <<>>,
                           taskDescription) EXCEPT
                       !.before = store.checklist, !.checklist = r.content,
                       !.marked = r.marked])

\* runNextTask takes the next story of the active item, and
\* triggerUserStoryImplementation's completion marks it by its text.
MarkUserStoryComplete ==
    \E taskId \in Texts :
       LET story == getNextUserStoryAsync(store.breakdown, taskId)
           r == markUserStoryCompleteAsync(store.breakdown, story.description)
       IN /\ story # NoTask
          /\ SetStore([Called(store, "markUserStoryCompleteAsync", taskId,
                              story.description) EXCEPT
                          !.before = store.breakdown, !.task = story,
                          !.breakdown = r.content, !.marked = r.marked])

MarkUserStoryCompleteReplace ==
    \E taskId \in Texts :
       LET story == getNextUserStoryAsync(store.breakdown, taskId)
           r == markUserStoryCompleteAsync_replace(store.breakdown,
                                                   story.description)
       IN /\ story # NoTask
          /\ SetStore([Called(store, "markUserStoryCompleteAsync_replace",
                              taskId, story.description) EXCEPT
                          !.before = store.breakdown, !.task = story,
                          !.breakdown = r.content, !.marked = r.marked])

NextStore ==
    \/ GetNextTask
    \/ GetTaskStats
    \/ MarkTaskComplete
    \/ MarkUserStoryComplete
    \/ MarkUserStoryCompleteReplace

InitStore ==
    /\ LoopAtRest
    /\ backoff = NoBackoff
    /\ \/ \E c \in SeqsUpTo(ChecklistLines, MaxLines) :
            store = NewStore(c, <<>>)
       \/ \E b \in SeqsUpTo(BreakdownLines, MaxStoryLines) :
            store = NewStore(<<>>, b)
SpecStore == InitStore /\ [][NextStore]_vars

\* ------------------------------------------- the files' functions, applied
FileGetNextTask ==
    SetStore([Called(store, "getNextTaskAsync", <<>>, <<>>) EXCEPT
                 !.task = getNextTaskAsync(orEmpty(readPRDAsync(store)))])

FileGetTaskStats ==
    SetStore([Called(store, "getTaskStatsAsync", <<>>, <<>>) EXCEPT
                 !.stats = getTaskStatsAsync(orEmpty(readPRDAsync(store)))])

FileGetNextUserStory ==
    \E taskId \in {<<"a">>} :
       SetStore([Called(store, "getNextUserStoryAsync", taskId, <<>>) EXCEPT
                    !.task = getNextUserStoryAsync(
                                 orEmpty(readUserStoriesAsync(store)), taskId)])

FileMarkUserStory ==
    \E target \in {<<"a">>, <<"b">>} :
       LET r == markUserStoryCompleteAsync_io(store, target)
       IN SetStore([Called(r[2], "markUserStoryCompleteAsync", <<>>, target)
                       EXCEPT !.marked = r[1]])

FileReadProgress ==
    SetStore([Called(store, "readProgressAsync", <<>>, <<>>) EXCEPT
                 !.text = readProgressAsync(store)])

FileAppendProgress ==
    /\ Len(store.progress) < MaxEntries
    /\ LET r == appendProgressAsync(store, "entry")
       IN SetStore([Called(r[2], "appendProgressAsync", <<>>, <<>>) EXCEPT
                       !.marked = r[1]])

FileEnsureProgress ==
    LET r == ensureProgressFileAsync(store)
    IN SetStore([Called(r[2], "ensureProgressFileAsync", <<>>, <<>>) EXCEPT
                    !.marked = r[1]])

NextFiles ==
    \/ FileGetNextTask \/ FileGetTaskStats \/ FileGetNextUserStory
    \/ FileMarkUserStory \/ FileReadProgress \/ FileAppendProgress
    \/ FileEnsureProgress

InitFiles ==
    /\ LoopAtRest
    /\ backoff = NoBackoff
    /\ \E root \in BOOLEAN, prdMode, fallbackMode \in {"ok", "unreadable", "missing"},
          storiesMode, progressMode \in
              {"ok", "readonly", "unreadable", "missing", "uncreatable"} :
          store = [NewStore(<< Item("-", " ", <<"a">>) >>,
                            << Heading(<<"a">>), Item("-", " ", <<"a">>) >>)
                   EXCEPT !.fs = [ root |-> root, prd |-> prdMode,
                                   fallback |-> fallbackMode,
                                   stories |-> storiesMode,
                                   progress |-> progressMode ],
                          !.fallback = << Item("-", "~", <<"b">>) >>]
SpecFiles == InitFiles /\ [][NextFiles]_vars

\* ---------------------------------------------- getBackoffDelay, applied
backoffVars == << state, isPaused, currentTaskId, currentTaskDescription,
                  isGeneratingUserStories, isImplementingUserStory,
                  currentUserStoryDescription, iterationCount, taskHistory,
                  trCurrentTask, maxIterations, cdTimer, imTimer, imIsWaiting,
                  imIsPaused, prdCheckInterval, pwWatcher, pwEnabled,
                  pwLastContent, awCallback, isStarted, currentSession, prd,
                  stories, threads, budget, afterStop, stopDone, last, exec,
                  countdown, monitor, creation, store >>

GetBackoffDelay ==
    /\ backoff.delay = -1
    /\ backoff' = [backoff EXCEPT !.delay =
          getBackoffDelay(backoff.attempt, backoff.baseDelayMs, backoff.jitter)]
    /\ UNCHANGED backoffVars

InitBackoff ==
    /\ LoopAtRest
    /\ store = NoStore
    /\ backoff \in [attempt : 0..MaxAttempt,
                    baseDelayMs : {0, 1, 1000, 2000, 30000, 60000, 70000},
                    jitter : {0, 1, 500, JitterMs - 1},
                    delay : {-1}]
SpecBackoff == InitBackoff /\ [][GetBackoffDelay]_vars

\* ------------------------------------------------------------- properties
\* The program's own variables (all but the bound and the history).
prog == << state, isPaused, currentTaskId, currentTaskDescription,
           isGeneratingUserStories, isImplementingUserStory,
           currentUserStoryDescription, iterationCount, taskHistory,
           trCurrentTask, maxIterations, cdTimer, imTimer, imIsWaiting,
           imIsPaused, prdCheckInterval, pwWatcher, pwEnabled, pwLastContent,
           awCallback, isStarted, currentSession, prd, stories >>

\* Number of continuations suspended at pc in the bag b.
Cnt(b, pc) == SumCopies(b, {th \in BagToSet(b) : th.pc = pc})

\* This step resumes a continuation suspended at pc / spawns one.
Resumes(pc) == Cnt(threads', pc) < Cnt(threads, pc)
Spawns(pc) == Cnt(threads', pc) > Cnt(threads, pc)

\* This step issues no gateway call.
NoNewCall == \A pc \in GatewayPcs : ~Spawns(pc)

\* This step is the end of a stopLoop(): the command itself when there is no
\* session to abort, else the continuation after the abort.
StopFinishes ==
    \/ Resumes("stop_abort")
    \/ last'.op = "stopLoop" /\ ~Spawns("stop_abort")

\* C1: after stopLoop() ran on a running loop, a callback that was pending
\* then (gateway completion, settle-delay timeout, checklist-change event
\* whose read had started, answer to the inactivity prompt), and whatever its
\* call chain runs later, leaves the iteration counter and the active task
\* text unchanged and issues no gateway call.
C1_LateCallbackInert ==
    [][ ( /\ afterStop
          /\ last'.op = "none"
          /\ \E th \in BagToSet(threads) :
                /\ th.org = "late"
                /\ CopiesIn(th, threads') < CopiesIn(th, threads) )
        => ( /\ iterationCount' = iterationCount
             /\ trCurrentTask' = trCurrentTask
             /\ NoNewCall ) ]_vars

\* C2: whenever the orchestrator is Idle and a stopLoop() has finished with
\* no startLoop() since, the countdown interval, the inactivity-monitor
\* interval and the backstop-poll interval are all cleared.
C2_NoTimerWhenStopped ==
    (state = "IDLE" /\ stopDone)
        => (~cdTimer /\ ~imTimer /\ ~prdCheckInterval)

C4_NoSecondCall ==
    \A a, b \in InFlight(threads) :
        (a.mark = 2 /\ b.org = "resume" /\ a # b)
            => ~(a.pc = b.pc /\ a.t = b.t /\ a.st = b.st)

\* C5: the history never holds two records of the same completion (same
\* task, same iteration), one made by the checklist-change watch and one by
\* the backstop poll.
C5_OneRecord ==
    \A i, j \in DOMAIN taskHistory :
        (taskHistory[i].by = "watch" /\ taskHistory[j].by = "poll")
            => ~( /\ taskHistory[i].task = taskHistory[j].task
                  /\ taskHistory[i].iteration = taskHistory[j].iteration )

\* C6: the iteration counter goes down only to zero and only in startLoop()
\* (its continuation that resets the run); every other step leaves it or adds
\* exactly one; an activation by the phase advance or the single step adds
\* exactly one.
C6_IterationCounter ==
    [][ /\ iterationCount' < iterationCount
           => (iterationCount' = 0 /\ Resumes("sl_stats"))
        /\ iterationCount' > iterationCount
           => iterationCount' = iterationCount + 1
        /\ (Spawns("rt_has") \/ Spawns("gw_step"))
           => iterationCount' = iterationCount + 1 ]_vars

\* C6 witness: the counter is positive after a stopLoop() has ended.
C6_Witness ==
    /\ iterationCount > 0
    /\ state = "IDLE" /\ stopDone

\* C7: the iteration counter never exceeds the (positive) ceiling; a phase
\* advance or single step that finds the counter at the ceiling activates no
\* task and issues no gateway call, and the phase advance stops the loop.
C7_Ceiling ==
    [][ /\ iterationCount' <= maxIterations'
        /\ ( /\ iterationCount = maxIterations
             /\ Resumes("rt_next") \/ Resumes("ss_next") )
           => ( /\ iterationCount' = iterationCount
                /\ trCurrentTask' = trCurrentTask
                /\ currentTaskDescription' \in {currentTaskDescription, 0}
                /\ ~Spawns("rt_has")
                /\ NoNewCall
                /\ Resumes("rt_next")
                   => (state' = "IDLE" \/ Spawns("stop_abort")) ) ]_vars

\* C7 witness: the phase advance found an eligible task with the counter at
\* the ceiling and stopped the loop (the run got no command but startLoop).
C7_Witness ==
    /\ iterationCount = maxIterations
    /\ afterStop /\ state = "IDLE"
    /\ budget = MaxInputs - 1
    /\ getNextTask(prd) # 0

\* C8: a startLoop() on a checklist without eligible item, in any of its
\* slices, changes none of: state, history, iteration counter, watchers,
\* timers, the connection to the executor; and issues no gateway call.
C8_StartWithoutTask ==
    [][ ( /\ state = "IDLE"
          /\ getTaskStats(prd).pending = 0
          /\ \/ last'.op = "startLoop"
             \/ Resumes("sl_copilot")
             \/ Resumes("sl_stats") )
        => ( /\ UNCHANGED << state, isPaused, taskHistory, iterationCount >>
             /\ UNCHANGED << cdTimer, imTimer, prdCheckInterval >>
             /\ UNCHANGED << pwWatcher, pwEnabled, awCallback >>
             /\ UNCHANGED << isStarted, currentSession >>
             /\ NoNewCall ) ]_vars

C10_Pause ==
    [][ last'.op = "pauseLoop"
        => IF state # "RUNNING"
           THEN UNCHANGED prog /\ threads' = threads
           ELSE /\ state' = "RUNNING" /\ isPaused'
                /\ ~pwEnabled' /\ imIsPaused' /\ ~cdTimer'
                /\ "abort" \notin last'.fx
                /\ \A pc \in GatewayPcs \cup {"stop_abort"} :
                      Cnt(threads', pc) = Cnt(threads, pc)
                /\ UNCHANGED << iterationCount, taskHistory, trCurrentTask,
                                currentTaskDescription, currentTaskId,
                                currentSession >> ]_vars

\* C10 witness: the loop was paused with a gateway call in flight.
C10_Witness ==
    /\ last.op = "pauseLoop"
    /\ state = "RUNNING" /\ isPaused
    /\ GatewayCallsInFlight(threads) > 0

\* C11: while the loop is paused (and stays paused), no step issues a gateway
\* call, changes the iteration counter, or makes another task or user story
\* the active one, whichever timer, event, answer or continuation runs.
C11_PausedInert ==
    [][ (state = "RUNNING" /\ isPaused /\ isPaused')
        => ( /\ NoNewCall
             /\ iterationCount' = iterationCount
             /\ trCurrentTask' \in {trCurrentTask, 0}
             /\ currentTaskDescription' \in {currentTaskDescription, 0}
             /\ currentUserStoryDescription'
                    \in {currentUserStoryDescription, NoStory} ) ]_vars

\* The program's variables that a single step leaves alone.
stepFrame == << state, isPaused, currentTaskId, currentTaskDescription,
                isGeneratingUserStories, isImplementingUserStory,
                currentUserStoryDescription, taskHistory, maxIterations,
                cdTimer, imTimer, imIsWaiting, imIsPaused, prdCheckInterval,
                pwWatcher, pwEnabled, pwLastContent, awCallback, isStarted,
                currentSession, prd, stories >>

\* C12: runSingleStep() while Running changes nothing and logs the refusal;
\* otherwise it starts one continuation; resumed with an eligible task and
\* the counter below the ceiling, that continuation adds one to the counter,
\* makes the first eligible task the TaskRunner's task and issues exactly one
\* gateway call, for that task, changing nothing else (state, timers,
\* watchers, poll, breakdown and story flags); resumed otherwise it changes
\* nothing and issues no call; the completion of the call changes nothing.
C12_SingleStep ==
    [][ /\ (last'.op = "runSingleStep" /\ state = "RUNNING")
           => ( /\ UNCHANGED prog
                /\ threads' = threads
                /\ last'.fx = {"log:cannotStep"} )
        /\ (last'.op = "runSingleStep" /\ state = "IDLE")
           => ( /\ UNCHANGED prog
                /\ threads' = threads (+)
                       SetToBag({Thread("ss_next", "call", 0, NoStory)}) )
        /\ \A th \in At("ss_next") :
              CopiesIn(th, threads') < CopiesIn(th, threads)
              => IF getNextTask(prd) # 0 /\ ~checkIterationLimit(Cur)
                 THEN /\ iterationCount' = iterationCount + 1
                      /\ trCurrentTask' = getNextTask(prd)
                      /\ threads' = (threads (-) SetToBag({th})) (+)
                            SetToBag({Thread("gw_step", "call",
                                             getNextTask(prd), NoStory)})
                      /\ UNCHANGED stepFrame
                 ELSE /\ UNCHANGED prog
                      /\ threads' = threads (-) SetToBag({th})
        /\ Resumes("gw_step")
           => ( /\ UNCHANGED prog
                /\ \E th \in At("gw_step") :
                      threads' = threads (-) SetToBag({th}) ) ]_vars

\* C12 witness: a single step on an idle orchestrator has its one gateway
\* call in flight.
C12_Witness ==
    /\ state = "IDLE"
    /\ iterationCount = 1
    /\ \E th \in InFlight(threads) : th.pc = "gw_step" /\ th.t = trCurrentTask
    /\ GatewayCallsInFlight(threads) = 1

\* C13: a phase advance that finds no eligible task (at either of its two
\* reads of the checklist) appends the all-complete line to the Progress Log
\* and stops the loop, leaving the iteration counter alone and issuing no
\* gateway call.
C13_AllComplete ==
    [][ ( /\ Resumes("rt_stats") \/ Resumes("rt_next")
          /\ getNextTask(prd) = 0 )
        => ( /\ "progress:allDone" \in last'.fx
             /\ state' = "IDLE" \/ Spawns("stop_abort")
             /\ iterationCount' = iterationCount
             /\ NoNewCall ) ]_vars

\* C14: after the answer Skip (the TaskRunner's task text is empty while the
\* orchestrator still holds the skipped task) the loop does not activate the
\* skipped task again: no step makes it the TaskRunner's task.
C14_SkipMovesOn ==
    [][ (state = "RUNNING" /\ trCurrentTask = 0 /\ currentTaskDescription # 0)
        => trCurrentTask' # currentTaskDescription ]_vars

\* The events of one kind in the call's history, and their number.
Sel(ev) == SelectSeq(exec.log, LAMBDA x : x.ev = ev)
Count(ev) == Len(Sel(ev))
Retrying == {"attempt", "backoff", "recycle"}

\* C15: an executeTask call that ended after k failed attempts and one
\* successful attempt returned true, made k + 1 attempts, computed k backoff
\* delays, for the attempt indices 0 .. k-1 in this order, each followed by
\* the restart of the client and then the next attempt, and invoked the
\* completion callback (when one was given) exactly once; k is at most
\* maxRetries.
C15_RetryThenSuccess ==
    (exec.pc = "done" /\ Count("ok") = 1)
    => LET k == Count("fail")
       IN /\ k <= exec.maxRetries
          /\ exec.result = "true"
          /\ Count("attempt") = k + 1
          /\ Len(Sel("backoff")) = k
          /\ \A i \in 1..k : Sel("backoff")[i].n = i - 1
          /\ Count("recycle") = k
          /\ \A i \in DOMAIN exec.log :
                exec.log[i].ev = "backoff"
                => ( /\ i + 2 <= Len(exec.log)
                     /\ exec.log[i + 1].ev = "recycle"
                     /\ exec.log[i + 2].ev = "attempt" )
          /\ exec.onComplete => Count("callback") = 1

\* C15 witness: a call with a callback succeeded at its third attempt.
C15_Witness ==
    /\ exec.pc = "done" /\ exec.result = "true"
    /\ Count("fail") = 2 /\ Count("attempt") = 3
    /\ exec.onComplete

\* C16: after an attempt failed with a message that matches a non-retryable
\* pattern, the call makes no attempt, backoff or restart; it returns false;
\* and with continueOnError set and a callback given the callback is invoked
\* exactly once.
C16_FatalStops ==
    \A i \in DOMAIN exec.log :
        (exec.log[i].ev = "fail" /\ exec.log[i].err \in {"nonRetryable", "both"})
        => ( /\ \A j \in DOMAIN exec.log :
                   j > i => exec.log[j].ev \notin Retrying
             /\ exec.pc \in {"callback", "done"}
             /\ exec.pc = "done"
                => ( /\ exec.result = "false"
                     /\ (exec.continueOnError /\ exec.onComplete)
                        => Count("callback") = 1 ) )

\* C16 witness: with maxRetries = 2 and continueOnError the first attempt
\* failed with a fatal error and the call has returned.
C16_Witness ==
    /\ exec.pc = "done" /\ exec.maxRetries = 2
    /\ exec.continueOnError /\ exec.onComplete
    /\ Count("attempt") = 1
    /\ exec.lastError \in {"nonRetryable", "both"}
    /\ Count("callback") = 1

\* C17: a call makes at most maxRetries + 1 attempts and invokes the
\* callback at most once, with no attempt after it; a call in which every
\* attempt failed and continueOnError is false invokes no callback and
\* returns false; the result is true exactly if an attempt succeeded, whether
\* or not the callback threw.
C17_Bounded ==
    /\ Count("attempt") <= exec.maxRetries + 1
    /\ Count("callback") <= 1
    /\ \A i, j \in DOMAIN exec.log :
          (exec.log[i].ev = "callback" /\ j > i)
          => exec.log[j].ev \notin Retrying
    /\ (exec.pc = "done" /\ Count("ok") = 0 /\ ~exec.continueOnError)
       => (Count("callback") = 0 /\ exec.result = "false")
    /\ exec.pc = "done" => (exec.result = "true" <=> Count("ok") = 1)
    /\ exec.pc = "done" => (exec.result = "false" <=> Count("ok") = 0)
    /\ exec.pc # "done" => exec.result = "pending"

\* C17 witness: with continueOnError false every one of the maxRetries + 1
\* attempts failed and the call has returned.
C17_Witness ==
    /\ exec.pc = "done" /\ ~exec.continueOnError /\ exec.onComplete
    /\ exec.maxRetries = MaxRetries
    /\ Count("attempt") = MaxRetries + 1
    /\ Count("ok") = 0

\* C19: after abort() was called during an executeTask call, that call
\* computes no backoff, restarts no client and makes no attempt.
C19_AbortStopsRetries ==
    exec.logAtAbort >= 0
    => \A i \in DOMAIN exec.log :
          i > exec.logAtAbort => exec.log[i].ev \notin Retrying

\* C18: the computed delay is the smaller of baseDelayMs * 2^attempt + jitter
\* and 60000, with 0 <= jitter < 1000; it never exceeds 60000; and with the
\* jitter set aside the delay for the next attempt index is not smaller.
C18_Backoff ==
    backoff.delay # -1
    => LET a == backoff.attempt
           b == backoff.baseDelayMs
           j == backoff.jitter
       IN /\ 0 <= j /\ j < 1000
          /\ backoff.delay =
                IF b * 2^a + j < 60000 THEN b * 2^a + j ELSE 60000
          /\ backoff.delay <= 60000
          /\ getBackoffDelay(a, b, 0) <= getBackoffDelay(a + 1, b, 0)
          /\ getBackoffDelay(a + 1, b, 0) <= 60000

\* C18 witness: a delay was computed that the cap cut down, and one below it.
C18_Witness ==
    /\ backoff.delay = 60000
    /\ backoff.baseDelayMs = 2000 /\ backoff.attempt = 5
    /\ getBackoffDelay(4, 2000, backoff.jitter) < 60000

\* C20: the values reported to onTick by a start(n, onTick) begin with n,
\* are never negative, and each is one less than the one before or the 0 of
\* stop(); the promise has resolved only after exactly n interval firings,
\* the last of which reported 0.
C20_Countdown ==
    countdown.onTick
    => ( /\ countdown.ticks[1] = countdown.seconds
         /\ \A i \in DOMAIN countdown.ticks : countdown.ticks[i] >= 0
         /\ \A i \in DOMAIN countdown.ticks :
               i > 1 => \/ countdown.ticks[i] = countdown.ticks[i - 1] - 1
                        \/ countdown.ticks[i] = 0
         /\ countdown.resolved
            => ( /\ countdown.elapsed = countdown.seconds
                 /\ countdown.remaining = 0
                 /\ ~cdTimer ) )

C22_FiresOnce ==
    [][ /\ monitor.callbacks' <= 1
        /\ monitor.callbacks' = 1 => ~imTimer'
        /\ monitor.callbacks' > monitor.callbacks
           => ( /\ monitor.op' = "poll"
                /\ imTimer /\ ~imTimer' /\ ~imIsWaiting' )
        /\ (~imTimer /\ monitor.op' # "start")
           => (~imTimer' /\ monitor.callbacks' = monitor.callbacks) ]_vars

\* C22 witness: after the callback was invoked, setWaiting(true) was called
\* and time has passed; no interval is set.
C22_Witness ==
    /\ monitor.callbacks = 1 /\ ~imTimer
    /\ imIsWaiting /\ ~imIsPaused
    /\ monitor.now > monitor.firedAt
    /\ monitor.now > monitor.lastActivityTime

\* C23: resume() makes the time of the call the baseline (also right after
\* pause()), and after a resume() the callback is invoked only when at least
\* 60 seconds have passed since the resume() and since the baseline.
C23_ResumeBaseline ==
    [][ /\ monitor.op' = "resume"
           => ( /\ monitor.lastActivityTime' = monitor.now
                /\ ~imIsPaused'
                /\ monitor.callbacks' = monitor.callbacks )
        /\ (monitor.callbacks' > monitor.callbacks /\ monitor.resumedAt # -1)
           => ( /\ monitor.now - monitor.resumedAt >= INACTIVITY_TIMEOUT_MS
                /\ monitor.now - monitor.lastActivityTime
                      >= INACTIVITY_TIMEOUT_MS
                /\ monitor.lastActivityTime >= monitor.resumedAt ) ]_vars

\* C23 witness: pause() and resume() at the same instant, more than 60
\* seconds after the start(), and the callback invoked 60 seconds later.
C23_Witness ==
    /\ monitor.pausedAt = monitor.resumedAt /\ monitor.resumedAt # -1
    /\ monitor.resumedAt > NewMonitor.now + INACTIVITY_CHECK_INTERVAL_MS
    /\ monitor.firedAt = monitor.resumedAt + INACTIVITY_TIMEOUT_MS
    /\ monitor.callbacks = 1

\* C24: the callback is invoked only by a poll that finds the waiting flag
\* set, the monitor not paused and the baseline at least 60 seconds old;
\* pause() leaves the baseline alone; setWaiting(true) and recordActivity()
\* make the time of the call the baseline.
C24_Gated ==
    [][ /\ monitor.callbacks' > monitor.callbacks
           => ( /\ imTimer /\ imIsWaiting /\ ~imIsPaused
                /\ monitor.now - monitor.lastActivityTime
                      >= INACTIVITY_TIMEOUT_MS )
        /\ (monitor.op' = "poll" /\ (imIsPaused \/ ~imIsWaiting))
           => UNCHANGED << imTimer, imIsWaiting, imIsPaused >>
        /\ monitor.op' = "pause"
           => monitor.lastActivityTime' = monitor.lastActivityTime
        /\ (monitor.op' = "setWaiting" /\ imIsWaiting')
           => monitor.lastActivityTime' = monitor.now
        /\ monitor.op' = "recordActivity"
           => monitor.lastActivityTime' = monitor.now ]_vars

\* C24 witness: a poll found the monitor paused with a baseline older than
\* 60 seconds and invoked nothing.
C24_Witness ==
    /\ monitor.op = "poll"
    /\ imTimer /\ imIsWaiting /\ imIsPaused
    /\ monitor.now - monitor.lastActivityTime >= INACTIVITY_TIMEOUT_MS
    /\ monitor.callbacks = 0

\* C25: the checklist-change handler, resumed with the content it read,
\* invokes the callback (the content differs from the last seen) only while
\* the watch is enabled and not disposed; resumed with the last-seen content
\* it changes nothing.
C25_CallbackWhileEnabled ==
    [][ /\ (Resumes("pw_read") /\ prd # pwLastContent)
           => (pwEnabled /\ pwWatcher)
        /\ (Resumes("pw_read") /\ prd = pwLastContent)
           => UNCHANGED prog ]_vars

\* C26: after PrdCreationWatcher.start(cb), cb is invoked at most once, and
\* once it was invoked the watch is disabled.
C26_CreatedOnce ==
    /\ creation.callbacks <= 1
    /\ creation.callbacks >= 1 => ~creation.enabled

\* The lower-cased marker of a checkbox line of the checklist, and the
\* numbers of the lines of a document that carry one of the markers in M.
MarkerOf(line) ==
    LET m == checkbox(line, TaskMarkers)
    IN IF m.ok THEN toLower(m.marker) ELSE "none"
LinesMarked(doc, M) == {i \in DOMAIN doc : MarkerOf(doc[i]) \in M}

\* C27: getNextTaskAsync returns the first line of the checklist, in document
\* order, whose marker is Pending "[ ]" or InProgress "[~]", and null when
\* there is none; what it returns is never a Complete or Blocked item.
C27_NextIsFirstOpen ==
    store.call = "getNextTaskAsync" =>
        LET open == LinesMarked(store.before, OpenMarkers)
        IN IF open = {} THEN store.task = NoTask
           ELSE /\ store.task.lineNumber \in open
                /\ \A i \in open : store.task.lineNumber <= i
                /\ store.task.rawLine = store.before[store.task.lineNumber]
                /\ store.task.status \in {"P", "I"}
                /\ MarkerOf(store.task.rawLine) \notin {"x", "!"}

\* A Blocked and a Complete item stand before the item returned.
C27_Witness ==
    /\ store.call = "getNextTaskAsync"
    /\ store.task # NoTask
    /\ \E i, j \in 1..(store.task.lineNumber - 1) :
          MarkerOf(store.before[i]) = "!" /\ MarkerOf(store.before[j]) = "x"

\* C28: total counts the checkbox items, completed the Complete ones and
\* pending the Pending and InProgress ones, so total = completed + pending +
\* Blocked; pending = 0 exactly when getNextTaskAsync returns null; the
\* document "- [ ] a", "- [x] ab" gives total 2, completed 1, pending 1.
C28_Stats ==
    store.call = "getTaskStatsAsync" =>
        LET doc == store.before
            st == store.stats
        IN /\ st.total = Cardinality(LinesMarked(doc, TaskMarkers))
           /\ st.completed = Cardinality(LinesMarked(doc, {"x"}))
           /\ st.pending = Cardinality(LinesMarked(doc, OpenMarkers))
           /\ st.total = st.completed + st.pending
                           + Cardinality(LinesMarked(doc, {"!"}))
           /\ (st.pending = 0) <=> (getNextTaskAsync(doc) = NoTask)
           /\ doc = << Item("-", " ", <<"a">>), Item("-", "x", <<"a", "b">>) >>
                => st = [total |-> 2, completed |-> 1, pending |-> 1]

\* Statistics of a document with a Blocked item and nothing left to do.
C28_Witness ==
    /\ store.call = "getTaskStatsAsync"
    /\ store.stats = [total |-> 3, completed |-> 2, pending |-> 0]
    /\ LinesMarked(store.before, {"!"}) # {}

\* The lines a marking call changed.
Flipped ==
    LET after == IF store.call = "markTaskCompleteAsync"
                 THEN store.checklist ELSE store.breakdown
    IN {i \in DOMAIN store.before : after[i] # store.before[i]}
MarkingCalls ==
    {"markTaskCompleteAsync", "markUserStoryCompleteAsync",
     "markUserStoryCompleteAsync_replace"}

\* C29: a call that marks an item complete changes at most one line of the
\* document.
C29_FlipsOne ==
    store.call \in MarkingCalls => Cardinality(Flipped) <= 1

\* The number of the line whose heading opens the section line i stands in
\* (0 before the first heading).
RECURSIVE headingOf(_, _)
headingOf(doc, i) ==
    IF i = 0 THEN 0
    ELSE IF taskHeading(doc[i]).ok THEN i ELSE headingOf(doc, i - 1)

\* C30: marking a story of the active item changes lines only in the
\* section of that item.
C30_InSection ==
    store.call = "markUserStoryCompleteAsync" =>
        \A i \in Flipped :
           LET h == headingOf(store.before, i)
           IN h # 0 /\ taskSectionPattern(store.before[h], store.taskId)

\* The operation of a step of the files' functions has no document to read
\* (no workspace folder, or the file is missing or its read is rejected, at
\* both paths for the checklist), or its write is rejected.
NoChecklist ==
    ~store.fs.root \/ (~canRead(store.fs.prd) /\ ~canRead(store.fs.fallback))
NoBreakdown == ~store.fs.root \/ ~canRead(store.fs.stories)
NoProgress == ~store.fs.root \/ ~canRead(store.fs.progress)
Documents == << store.checklist, store.fallback, store.breakdown,
                store.progress >>

C32_StoryCallback ==
    [][ /\ Resumes("gw_impl")
           => \E th \in At("gw_impl") :
                 /\ stories' = [stories EXCEPT ![th.st[1]][th.st[2]] = "X"]
                 /\ ~isImplementingUserStory'
                 /\ currentUserStoryDescription' = NoStory
                 /\ Cnt(threads', "settle") = Cnt(threads, "settle") + 1
        /\ (Resumes("settle") /\ state = "RUNNING" /\ ~isPaused)
           => Spawns("ru_all")
        /\ ( /\ Resumes("ck_story")
             /\ Cnt(threads, "settle") + Cnt(threads, "ru_all") > 0 )
           => ~cdTimer' ]_vars

\* ------------------------------------------------- the loop left to itself
\* One start() and no other command: the operator neither pauses, resumes,
\* stops nor answers the inactivity prompt.  Every gateway attempt fails: the
\* executor writes nothing, and executeTask still runs the completion callback
\* (continueOnError).  A breakdown may be on disk from an earlier run.
Breakdowns == {<<>>, <<"P">>, <<"X">>, <<"X", "P">>}

InitFailing ==
    /\ Objects
    /\ stories \in [Tasks -> Breakdowns]
    /\ budget = MaxInputs /\ backoff = NoBackoff /\ store = NoStore

StartOnce == budget = MaxInputs /\ StartLoop

NextFailing ==
    \/ StartOnce
    \/ CountdownComplete \/ InactivityTimeout \/ PrdCheckTick
    \/ StartLoopCopilot \/ StartLoopStats \/ StartLoopWatchers
    \/ StopLoopFinish
    \/ RunNextTaskStats \/ RunNextTaskNext \/ RunNextTaskHas \/ SettleTimeout
    \/ RunNextUserStoryAll \/ RunNextUserStoryNext
    \/ PrdCheckNext
    \/ CountdownHas
    \/ ExecuteTaskDone \/ CreateSession

\* Timers expire, awaited reads return and the gateway settles every call.
FairFailing ==
    /\ WF_vars(CountdownComplete) /\ WF_vars(InactivityTimeout)
    /\ WF_vars(PrdCheckTick) /\ WF_vars(PrdCheckNext)
    /\ WF_vars(StartLoopCopilot) /\ WF_vars(StartLoopStats)
    /\ WF_vars(StartLoopWatchers) /\ WF_vars(StopLoopFinish)
    /\ WF_vars(RunNextTaskStats) /\ WF_vars(RunNextTaskNext)
    /\ WF_vars(RunNextTaskHas) /\ WF_vars(SettleTimeout)
    /\ WF_vars(RunNextUserStoryAll) /\ WF_vars(RunNextUserStoryNext)
    /\ WF_vars(CountdownHas) /\ WF_vars(ExecuteTaskDone)

SpecFailing == InitFailing /\ [][NextFailing]_vars /\ FairFailing

\* C33: when every gateway attempt for the active item fails, a Running,
\* unpaused loop left to itself eventually activates a different item or
\* returns to Idle.
C33_NeverStuck ==
    \A t \in Tasks :
        (state = "RUNNING" /\ ~isPaused /\ currentTaskDescription = t)
            ~> (state = "IDLE" \/ currentTaskDescription \notin {0, t})

\* ------------------------------------------- the breakdown of one item, read
\* The questions runNextTask and runNextUserStory ask about the breakdown of
\* an item, on breakdown documents of up to MaxStoryLines lines.
SectionLines ==
    { Heading(<<"a", "b">>), Heading(<<"T">>),
      <<"#", "#", " ", "t", "a", "s", "k", ":", "a">>,    \* "## task:a"
      Item("-", " ", <<"a">>), Item("-", "x", <<"b">>),
      Item("*", "X", <<"a">>), Item("-", "~", <<"b">>) }
TaskIds == {<<"a">>, <<"t">>}

StoriesGetNext ==
    \E taskId \in TaskIds :
       SetStore([Called(store, "getNextUserStoryAsync", taskId, <<>>) EXCEPT
                    !.task = getNextUserStoryAsync(store.breakdown, taskId)])
StoriesHas ==
    \E taskId \in TaskIds :
       SetStore([Called(store, "hasUserStoriesForTaskAsync", taskId, <<>>)
                 EXCEPT !.result =
                    hasUserStoriesForTaskAsync(store.breakdown, taskId)])
StoriesAllComplete ==
    \E taskId \in TaskIds :
       SetStore([Called(store, "areAllUserStoriesCompleteAsync", taskId, <<>>)
                 EXCEPT !.result =
                    areAllUserStoriesCompleteAsync(store.breakdown, taskId)])

NextStories == StoriesGetNext \/ StoriesHas \/ StoriesAllComplete

InitStories ==
    /\ LoopAtRest
    /\ backoff = NoBackoff
    /\ \E b \in SeqsUpTo(SectionLines, MaxStoryLines) :
            store = NewStore(<<>>, b)
SpecStories == InitStories /\ [][NextStories]_vars

Spaces(n) == [i \in 1..n |-> " "]

\* `line` is a "## Task:" heading; its text begins with taskId.
IsHeading(line) ==
    \E n \in 1..Len(line) :
       startsWith(toLowerCase(line),
                  <<"#", "#">> \o Spaces(n) \o <<"t", "a", "s", "k", ":">>)
HeadingBegins(line, taskId) ==
    \E n \in 1..Len(line), m \in 0..Len(line) :
       startsWith(toLowerCase(line),
                  <<"#", "#">> \o Spaces(n) \o <<"t", "a", "s", "k", ":">>
                  \o Spaces(m) \o toLowerCase(taskId))

\* The last heading above line i (0 if none).
HeadingAbove(doc, i) ==
    IF \E h \in 1..(i - 1) : IsHeading(doc[h])
    THEN CHOOSE h \in 1..(i - 1) :
            /\ IsHeading(doc[h])
            /\ \A g \in (h + 1)..(i - 1) : ~IsHeading(doc[g])
    ELSE 0

\* The checkbox lines under the headings of taskId.
SubItems(doc, taskId) ==
    { i \in DOMAIN doc :
        /\ checkbox(doc[i], StoryMarkers).ok
        /\ HeadingAbove(doc, i) # 0
        /\ HeadingBegins(doc[HeadingAbove(doc, i)], taskId) }
Complete(doc, i) == toLower(checkbox(doc[i], StoryMarkers).marker) = "x"

\* C34: the sub-items of an item are exactly the checkbox lines under the
\* "## Task:" headings whose text equals or begins with the item's
\* description, whatever the case, up to the next such heading; "has a
\* breakdown", "next eligible sub-item" and "all complete" are computed from
\* that set, and "all complete" is false for the empty set.
C34_SubItems ==
    LET doc == store.breakdown
        S == SubItems(doc, store.taskId)
        open == {i \in S : ~Complete(doc, i)}
    IN /\ \A taskId \in TaskIds :
            LET stories_ == parseUserStoriesFromContent(doc, taskId)
            IN /\ {stories_[k].lineNumber : k \in DOMAIN stories_}
                    = SubItems(doc, taskId)
               /\ \A k \in DOMAIN stories_ :
                     /\ k > 1 => stories_[k - 1].lineNumber < stories_[k].lineNumber
                     /\ (stories_[k].status = "X")
                           <=> Complete(doc, stories_[k].lineNumber)
       /\ store.call = "hasUserStoriesForTaskAsync"
            => (store.result <=> S # {})
       /\ store.call = "areAllUserStoriesCompleteAsync"
            => (store.result <=> (S # {} /\ open = {}))
       /\ store.call = "getNextUserStoryAsync"
            => IF open = {} THEN store.task = NoTask
               ELSE /\ store.task.lineNumber \in open
                    /\ \A i \in open : store.task.lineNumber <= i

\* A heading in another case whose text only begins with the description,
\* followed by a heading of another item: the item has sub-items, all
\* complete, and the line under the other heading is not one of them.
C34_Witness ==
    /\ store.call = "areAllUserStoriesCompleteAsync"
    /\ store.taskId = <<"t">>
    /\ store.result
    /\ Len(store.breakdown) = 4
    /\ store.breakdown[1] = Heading(<<"T">>)
    /\ store.breakdown[3] = Heading(<<"a", "b">>)
    /\ store.breakdown[4] = Item("-", " ", <<"a">>)

\* C35: the paused flag is set only while the execution state is Running, so
\* a resumeLoop that calls runNextTask finds the loop Running.
C35_PausedOnlyRunning ==
    [][ /\ isPaused' => state' = "RUNNING"
        /\ (last'.op = "resumeLoop" /\ isPaused) => state = "RUNNING" ]_vars

\* The loop is paused while stopLoop, called by the loop itself, awaits the
\* abort of the session.
C35_Witness ==
    /\ isPaused /\ state = "RUNNING"
    /\ At("stop_abort") # {}

\* C36: start() calls that overlap make one run: the slice of startLoop that
\* clears the history, resets the counter and sets Running is entered from
\* Idle only, and the slice that arms the watchers and the monitor and calls
\* runNextTask finds no watcher armed and no pass of runNextTask begun.
C36_SingleRun ==
    [][ /\ (Resumes("sl_stats") /\ Spawns("sl_watch")) => state = "IDLE"
        /\ Resumes("sl_watch")
             => (~pwWatcher /\ ~imTimer /\ iterationCount = 0
                 /\ GatewayCallsInFlight(threads) = 0) ]_vars

\* ------------------------------------------------------- a run started once
\* The program with one start(), its first command, and after it any
\* command but start(), any timer, file event, continuation and gateway
\* completion.
NextOneStart ==
    \/ StartOnce \/ PauseLoop \/ ResumeLoop \/ StopLoop \/ RunSingleStep
    \/ CountdownComplete \/ InactivityTimeout \/ PrdCheckTick
    \/ PrdWatcherOnChange \/ ActivityEvent
    \/ StartLoopCopilot \/ StartLoopStats \/ StartLoopWatchers
    \/ StopLoopFinish \/ SingleStepNext
    \/ RunNextTaskStats \/ RunNextTaskNext \/ RunNextTaskHas \/ SettleTimeout
    \/ RunNextUserStoryAll \/ RunNextUserStoryNext
    \/ PrdCheckNext \/ PrdWatcherRead
    \/ CheckProgress
    \/ CountdownHas \/ HandleInactivity
    \/ ExecuteTaskDone \/ CreateSession
    \/ ExecutorMarksTask \/ ExecutorWritesStories

SpecOneStart == Init /\ [][NextOneStart]_vars

\* C37: during a run at most one gateway call is in flight: no call for an
\* item or a sub-item is issued by the loop while a call it issued earlier
\* has not finished.
LoopPcs == {"gw_gen", "gw_impl", "gw_mark"}
LoopCalls(b) == Cnt(b, "gw_gen") + Cnt(b, "gw_impl") + Cnt(b, "gw_mark")
C37_OneCall ==
    [][ (\E pc \in LoopPcs : Spawns(pc)) => LoopCalls(threads) = 0 ]_vars

\* C38: while the loop is paused the inactivity monitor does not raise the
\* operator prompt, also when a gateway call in flight at the pause returns
\* during the pause and the code after it re-arms the watcher and the monitor.
C38_NoPromptWhilePaused ==
    [][ Spawns("prompt") => ~isPaused ]_vars

\* ------------------------------------------------------ the sub-item cycle
\* runNextUserStory on the breakdown document of one item, whose section is
\* the whole document: a pass takes the next eligible sub-item, issues its
\* implementation call, and the completion of the call (success or failure)
\* marks the sub-item by its text and, if that marked a line, appends to the
\* progress log.  With no eligible sub-item the cycle ends: with the
\* item-completion step when all sub-items are complete, else with the
\* countdown.
ActiveItem == <<"a">>
StoryItems == {Item("-", m, t) : m \in StoryMarkers, t \in {<<"a">>, <<"a", "b">>}}

CyclePass ==
    LET story == getNextUserStoryAsync(orEmpty(readUserStoriesAsync(store)),
                                       ActiveItem)
        r == markUserStoryCompleteAsync_io(store, story.description)
        logged == IF r[1] THEN appendProgressAsync(r[2], "entry")[2] ELSE r[2]
    IN /\ story # NoTask
       /\ SetStore([Called(logged, "triggerUserStoryImplementation",
                           ActiveItem, story.description) EXCEPT
                       !.before = store.breakdown, !.task = story,
                       !.marked = r[1]])

CycleEnd ==
    LET content == orEmpty(readUserStoriesAsync(store))
    IN /\ getNextUserStoryAsync(content, ActiveItem) = NoTask
       /\ SetStore([Called(store, "runNextUserStory", ActiveItem, <<>>) EXCEPT
                       !.result =
                          areAllUserStoriesCompleteAsync(content, ActiveItem)])

NextCycle == CyclePass \/ CycleEnd

InitCycle ==
    /\ LoopAtRest
    /\ backoff = NoBackoff
    /\ \E items \in SeqsUpTo(StoryItems, MaxLines),
          storiesMode \in {"ok", "readonly"} :
          store = [NewStore(<<>>, <<Heading(ActiveItem)>> \o items)
                   EXCEPT !.fs.stories = storiesMode]
SpecCycle == InitCycle /\ [][NextCycle]_vars

\* The number of eligible sub-items of the active item.
EligibleIn(content) ==
    count(parseUserStoriesFromContent(content, ActiveItem), Eligible)

\* C39: every pass of the sub-item cycle strictly reduces the number of
\* eligible sub-items of the active item, whatever the outcome of the gateway
\* call and of the write of the breakdown document.
C39_PassReduces ==
    [][ store'.call = "triggerUserStoryImplementation"
           => EligibleIn(store'.breakdown) < EligibleIn(store.breakdown) ]_vars

\* ------------------------------------------- the loop with a willing executor
\* One start() and no other command; the inactivity prompt is not raised (the
\* executor finishes in time).  The executor writes a breakdown during the
\* generation call and marks the item in the checklist during the
\* mark-complete call, and every call finishes after it has done so.  Its
\* writes raise file events.
ExecutorMarksAsked ==
    \E th \in InFlight(threads) :
        /\ th.pc = "gw_mark" /\ th.t \in Tasks
        /\ prd[th.t] \in Eligible
        /\ Do([Cur EXCEPT !.prd[th.t] = "X"])

ExecuteTaskCompletes ==
    \E th \in InFlight(threads) :
        /\ th.pc = "gw_gen" => (th.t \in Tasks /\ stories[th.t] # <<>>)
        /\ th.pc = "gw_mark" => (th.t \in Tasks /\ prd[th.t] = "X")
        /\ Do(executeTaskDone(Kill(Cur, th), th))

\* The countdown runs 12 s, the settle delay 1 s and a read of a document
\* far less: a settle timeout or a read that is pending when the countdown is
\* armed is over before it expires.  Only gateway calls last longer.
CountdownAfterSettle ==
    /\ \A th \in BagToSet(threads) : th.pc \in GatewayPcs
    /\ CountdownComplete

NextAuto ==
    \/ StartOnce
    \/ CountdownAfterSettle \/ PrdCheckTick
    \/ PrdWatcherOnChange \/ ActivityEvent
    \/ StartLoopCopilot \/ StartLoopStats \/ StartLoopWatchers
    \/ StopLoopFinish
    \/ RunNextTaskStats \/ RunNextTaskNext \/ RunNextTaskHas \/ SettleTimeout
    \/ RunNextUserStoryAll \/ RunNextUserStoryNext
    \/ PrdCheckNext \/ PrdWatcherRead
    \/ CheckProgress
    \/ CountdownHas
    \/ ExecuteTaskCompletes \/ CreateSession
    \/ ExecutorMarksAsked \/ ExecutorWritesStories

\* Timers expire, awaited reads return, the executor does what it is asked
\* and the gateway settles every call.
FairAuto ==
    /\ WF_vars(CountdownAfterSettle) /\ WF_vars(PrdCheckTick)
    /\ WF_vars(PrdCheckNext) /\ WF_vars(PrdWatcherRead)
    /\ WF_vars(CheckProgress)
    /\ WF_vars(StartLoopCopilot) /\ WF_vars(StartLoopStats)
    /\ WF_vars(StartLoopWatchers) /\ WF_vars(StopLoopFinish)
    /\ WF_vars(RunNextTaskStats) /\ WF_vars(RunNextTaskNext)
    /\ WF_vars(RunNextTaskHas) /\ WF_vars(SettleTimeout)
    /\ WF_vars(RunNextUserStoryAll) /\ WF_vars(RunNextUserStoryNext)
    /\ WF_vars(CountdownHas)
    /\ WF_vars(ExecutorWritesStories) /\ WF_vars(ExecutorMarksAsked)
    /\ WF_vars(ExecuteTaskCompletes)

SpecAuto == Init /\ [][NextAuto]_vars /\ FairAuto

\* C40: with fair timers and callbacks and an executor that does what it is
\* asked, a started loop that the operator leaves alone returns to Idle, with
\* no eligible item left or with the iteration ceiling reached, and it
\* activates no item that is already active or already recorded complete.
C40_RunsToTheEnd ==
    /\ (state = "RUNNING")
          ~> ( /\ state = "IDLE"
               /\ getNextTask(prd) = 0 \/ checkIterationLimit(Cur) )
    /\ [][ "activate" \in last'.fx
             => /\ trCurrentTask' # trCurrentTask
                /\ \A i \in DOMAIN taskHistory :
                       taskHistory[i].task # trCurrentTask' ]_vars

=============================================================================
